---- MODULE Spec2Model ----
(***************************************************************************)
(* Model of the graph module of aoc_helper: the arena graph (VecGraph,     *)
(* src/src/graph/vec_graph.rs) and the two shortest-path searches the      *)
(* Graph trait implements by default (src/src/graph/mod.rs), the           *)
(* shared-ownership graph (RcGraph, src/src/graph/rc_graph.rs) driven by   *)
(* the same calls as the arena graph, and the grid built over the arena    *)
(* graph (src/src/graph/grid.rs).                                          *)
(***************************************************************************)
EXTENDS Integers, Sequences, FiniteSets, TLC

\* ------------------------------------------------------------------------
\* Bounds of the model
\* ------------------------------------------------------------------------
MaxNodes == 3
MaxEdges == 2
MaxData == 2
MaxRows == 3
MaxCols == 3
MaxGridData == 1
MaxOffset == 3

\* Payloads stored in the nodes (VecGraph<usize> in the tests).
Data == 0..MaxData
\* Handles a caller can pass: NodeIndex is a public usize wrapper, so a caller
\* can build handles that no add_node call returned.
Handles == 0..MaxNodes

\* Option<T>: None is the empty sequence, Some(x) the one-element sequence.
None == <<>>
Some(x) == <<x>>

VARIABLES
    nodes,        \* VecGraph.nodes : Vec<NodeData<T>>
    edges,        \* VecGraph.edges : Vec<EdgeData>
    pc,           \* position of the caller: "idle" between calls, inside the loop of a
                  \* search, or "returned" when a call has just handed back its outcome
    call,         \* the call in progress or the last call made, with its arguments
    ret,          \* outcome of the last completed call
    frontier,     \* DoublePriorityQueue of the running search: item -> priority
    came_from,    \* HashMap<NodeReference, NodeReference> of the running search
    cost_so_far,  \* HashMap<NodeReference, usize> of the running search
    rc_nodes,     \* RcGraph.nodes : Vec<Node<T>>, a neighbor being the address of its cell
    rc_heap,      \* the Rc<RefCell<Node<T>>> cells allocated by RcGraph::add_edge, by address
    rc_ret,       \* outcome of the last completed call on the RcGraph
    built_validly,\* history: no add_edge call so far named a handle that is no node
    node_indices  \* Grid.node_indices : Option<Vec<Vec<NodeIndex>>>

vars == <<nodes, edges, pc, call, ret, frontier, came_from, cost_so_far,
          rc_nodes, rc_heap, rc_ret, built_validly, node_indices>>
search == <<frontier, came_from, cost_so_far>>
\* The RcGraph, and what only the two-graph and grid behaviours change.
rc == <<rc_nodes, rc_heap, rc_ret>>
beside_vec == <<rc_nodes, rc_heap, rc_ret, built_validly, node_indices>>

\* The graph a search runs on, and the state of a search, as values.
Graph(ns, es) == [nodes |-> ns, edges |-> es]
G == Graph(nodes, edges)
SearchState(f, cf, csf) == [frontier |-> f, came_from |-> cf, cost_so_far |-> csf]
St == SearchState(frontier, came_from, cost_so_far)

\* Vec indices are 0-based; TLA+ sequences are 1-based.
Get(v, i) == IF i >= 0 /\ i < Len(v) THEN Some(v[i + 1]) ELSE None

\* The elements of a Vec, and Vec::reverse.
Range(seq) == {seq[i] : i \in 1..Len(seq)}
Reverse(seq) == [i \in 1..Len(seq) |-> seq[Len(seq) + 1 - i]]

\* A finite map (HashMap) is a function on a finite set of keys.
EmptyMap == [k \in {} |-> 0]
ContainsKey(m, k) == k \in DOMAIN m
Insert(m, k, v) == [x \in (DOMAIN m) \cup {k} |-> IF x = k THEN v ELSE m[x]]

\* The outcome of a call: it returns a value or it panics.
Returned(v) == [status |-> "ok", value |-> v, msg |-> ""]
Panicked(m) == [status |-> "panic", value |-> <<>>, msg |-> m]
Running == [status |-> "running", value |-> <<>>, msg |-> ""]
NoResult == [status |-> "none", value |-> <<>>, msg |-> ""]
NoCall == [op |-> "none"]

Init ==
    /\ nodes = <<>>
    /\ edges = <<>>
    /\ pc = "idle"
    /\ call = NoCall
    /\ ret = NoResult
    /\ frontier = EmptyMap
    /\ came_from = EmptyMap
    /\ cost_so_far = EmptyMap
    /\ rc_nodes = <<>>
    /\ rc_heap = <<>>
    /\ rc_ret = NoResult
    /\ built_validly = TRUE
    /\ node_indices = None

\* ------------------------------------------------------------------------
\* VecGraph
\* ------------------------------------------------------------------------

\* VecGraph::add_node
add_node(data) ==
    /\ pc = "idle"
    /\ Len(nodes) < MaxNodes
    /\ LET index == Len(nodes) IN
        /\ nodes' = Append(nodes, [data |-> data, index |-> index, first_outgoing_edge |-> None])
        /\ call' = [op |-> "add_node", data |-> data]
        /\ ret' = Returned(index)
    /\ pc' = "returned"
    /\ UNCHANGED <<edges, search>>

\* The guard of add_edge on the target handle: true when add_edge panics
\* with "Target node not found!".
TargetNotFound(len, target) == len < target

\* add_edge as it would be if an edge the source already has were not stored again.
add_edge_deduplicating(source, target) ==
    /\ pc = "idle"
    /\ \/ Len(edges) < MaxEdges
       \/ TargetNotFound(Len(nodes), target)
       \/ Get(nodes, source) = None
    /\ call' = [op |-> "add_edge", source |-> source, target |-> target]
    /\ LET edge_index == Len(edges) IN
       IF TargetNotFound(Len(nodes), target)
       THEN /\ ret' = Panicked("Target node not found!")
            /\ UNCHANGED <<nodes, edges>>
       ELSE IF Get(nodes, source) = None
       THEN /\ ret' = Panicked("Source node not found.")
            /\ UNCHANGED <<nodes, edges>>
       ELSE IF \E e \in 1..Len(edges) :
                   /\ edges[e].target = target
                   /\ \/ nodes[source + 1].first_outgoing_edge = Some(e - 1)
                      \/ \E d \in 1..Len(edges) :
                            /\ edges[d].next_outgoing_edge = Some(e - 1)
                            /\ nodes[source + 1].first_outgoing_edge = Some(d - 1)
       THEN /\ ret' = Returned(<<>>)
            /\ UNCHANGED <<nodes, edges>>
       ELSE /\ edges' = Append(edges, [target |-> target,
                                      next_outgoing_edge |-> nodes[source + 1].first_outgoing_edge])
            /\ nodes' = [nodes EXCEPT ![source + 1].first_outgoing_edge = Some(edge_index)]
            /\ ret' = Returned(<<>>)
    /\ pc' = "returned"
    /\ UNCHANGED search

\* add_edge as it would be if the edge were pushed before the source node is
\* looked up: a call that panics on its source leaves an edge behind.
add_edge_pushing_first(source, target) ==
    /\ pc = "idle"
    /\ \/ Len(edges) < MaxEdges
       \/ TargetNotFound(Len(nodes), target)
    /\ call' = [op |-> "add_edge", source |-> source, target |-> target]
    /\ LET edge_index == Len(edges) IN
       IF TargetNotFound(Len(nodes), target)
       THEN /\ ret' = Panicked("Target node not found!")
            /\ UNCHANGED <<nodes, edges>>
       ELSE IF Get(nodes, source) = None
       THEN /\ edges' = Append(edges, [target |-> target, next_outgoing_edge |-> None])
            /\ ret' = Panicked("Source node not found.")
            /\ UNCHANGED nodes
       ELSE /\ edges' = Append(edges, [target |-> target,
                                      next_outgoing_edge |-> nodes[source + 1].first_outgoing_edge])
            /\ nodes' = [nodes EXCEPT ![source + 1].first_outgoing_edge = Some(edge_index)]
            /\ ret' = Returned(<<>>)
    /\ pc' = "returned"
    /\ UNCHANGED search

\* add_edge as it would be if the new edge did not take over the list the
\* source node had: its next_outgoing_edge is None.
add_edge_dropping_the_list(source, target) ==
    /\ pc = "idle"
    /\ \/ Len(edges) < MaxEdges
       \/ TargetNotFound(Len(nodes), target)
       \/ Get(nodes, source) = None
    /\ call' = [op |-> "add_edge", source |-> source, target |-> target]
    /\ LET edge_index == Len(edges) IN
       IF TargetNotFound(Len(nodes), target)
       THEN /\ ret' = Panicked("Target node not found!")
            /\ UNCHANGED <<nodes, edges>>
       ELSE IF Get(nodes, source) = None
       THEN /\ ret' = Panicked("Source node not found.")
            /\ UNCHANGED <<nodes, edges>>
       ELSE /\ edges' = Append(edges, [target |-> target, next_outgoing_edge |-> None])
            /\ nodes' = [nodes EXCEPT ![source + 1].first_outgoing_edge = Some(edge_index)]
            /\ ret' = Returned(<<>>)
    /\ pc' = "returned"
    /\ UNCHANGED search

\* VecGraph::add_edge
add_edge(source, target) ==
    /\ pc = "idle"
    \* the edge arena of the model is bounded: only a call that stores an edge needs room
    /\ \/ Len(edges) < MaxEdges
       \/ TargetNotFound(Len(nodes), target)
       \/ Get(nodes, source) = None
    /\ call' = [op |-> "add_edge", source |-> source, target |-> target]
    /\ LET edge_index == Len(edges) IN
       IF TargetNotFound(Len(nodes), target)
       THEN /\ ret' = Panicked("Target node not found!")
            /\ UNCHANGED <<nodes, edges>>
       ELSE IF Get(nodes, source) = None
       THEN /\ ret' = Panicked("Source node not found.")
            /\ UNCHANGED <<nodes, edges>>
       ELSE /\ edges' = Append(edges, [target |-> target,
                                      next_outgoing_edge |-> nodes[source + 1].first_outgoing_edge])
            /\ nodes' = [nodes EXCEPT ![source + 1].first_outgoing_edge = Some(edge_index)]
            /\ ret' = Returned(<<>>)
    /\ pc' = "returned"
    /\ UNCHANGED search

\* VecGraph::get_data
get_data(g, node) ==
    LET node_data == Get(g.nodes, node) IN
    IF node_data /= None THEN Some(node_data[1].data) ELSE None

\* Successors::next, iterated until it yields None (collect_vec): the targets
\* of the edge list that starts at current_edge_index.  A list that does not
\* end within the edge arena's length never yields None.
RECURSIVE SuccessorsCollect(_, _, _)
SuccessorsCollect(g, current_edge_index, fuel) ==
    IF current_edge_index = None THEN Returned(<<>>)
    ELSE IF fuel = 0 THEN [status |-> "diverges", value |-> <<>>, msg |-> ""]
    ELSE LET edge == Get(g.edges, current_edge_index[1]) IN
         IF edge = None THEN Panicked("Edge not found!")
         ELSE LET rest == SuccessorsCollect(g, edge[1].next_outgoing_edge, fuel - 1) IN
              IF rest.status = "ok" THEN Returned(<<edge[1].target>> \o rest.value) ELSE rest

\* successors as it would be if a missing source had no successors.
successors_lenient(g, source) ==
    LET n == Get(g.nodes, source) IN
    IF n /= None THEN SuccessorsCollect(g, n[1].first_outgoing_edge, Len(g.edges) + 1)
    ELSE Returned(<<>>)

\* VecGraph::successors
successors(g, source) ==
    LET n == Get(g.nodes, source) IN
    IF n /= None THEN SuccessorsCollect(g, n[1].first_outgoing_edge, Len(g.edges) + 1)
    ELSE Panicked("Source not not found!")

\* get_neighbors as it would be if it listed the oldest edge first.
get_neighbors_oldest_first(g, node) ==
    LET r == successors(g, node) IN
    IF r.status = "ok" THEN Returned(Reverse(r.value)) ELSE r

\* VecGraph::get_neighbors
get_neighbors(g, node) == successors(g, node)

\* VecGraph::find_nodes, for the predicate "the payload is in the set p"
RECURSIVE FilterIndex(_, _)
FilterIndex(ns, p) ==
    IF ns = <<>> THEN <<>>
    ELSE (IF Head(ns).data \in p THEN <<Head(ns).index>> ELSE <<>>) \o FilterIndex(Tail(ns), p)

find_nodes(g, p) == FilterIndex(g.nodes, p)

\* VecGraph::find, for the predicate "the payload is in the set p"
RECURSIVE FindFirst(_, _)
FindFirst(ns, p) ==
    IF ns = <<>> THEN None
    ELSE IF Head(ns).data \in p THEN Some(Head(ns).index)
    ELSE FindFirst(Tail(ns), p)

\* find as it would be if the scan kept the last match.
find_last(g, p) ==
    LET matches == find_nodes(g, p) IN
    IF matches = <<>> THEN None ELSE Some(matches[Len(matches)])

find(g, p) == FindFirst(g.nodes, p)

\* VecGraph::get_data_mut: the payload the returned reference points at
get_data_mut(g, node) ==
    LET node_data == Get(g.nodes, node) IN
    IF node_data /= None THEN Some(node_data[1].data) ELSE None

\* What a caller can do with the reference get_data_mut returns: leave the
\* payload alone (None) or assign a value through it (Some(v)).
Writes == {None} \cup {Some(v) : v \in Data}

\* A call of get_data
call_get_data(node) ==
    /\ pc = "idle"
    /\ pc' = "returned"
    /\ call' = [op |-> "get_data", node |-> node]
    /\ ret' = Returned(get_data(G, node))
    /\ UNCHANGED <<nodes, edges, search>>

\* get_data_mut as it would be if it handed out a reference to a copy of the
\* payload: what the caller writes is lost.
call_get_data_mut_of_copy(node, write) ==
    /\ pc = "idle"
    /\ pc' = "returned"
    /\ call' = [op |-> "get_data_mut", node |-> node, write |-> write]
    /\ ret' = Returned(get_data_mut(G, node))
    /\ UNCHANGED <<nodes, edges, search>>

\* A call of get_data_mut, and the caller's use of the reference it returns
call_get_data_mut(node, write) ==
    /\ pc = "idle"
    /\ pc' = "returned"
    /\ call' = [op |-> "get_data_mut", node |-> node, write |-> write]
    /\ ret' = Returned(get_data_mut(G, node))
    /\ nodes' = IF get_data_mut(G, node) /= None /\ write /= None
                THEN [nodes EXCEPT ![node + 1].data = write[1]]
                ELSE nodes
    /\ UNCHANGED <<edges, search>>

\* A call of get_neighbors
call_get_neighbors(node) ==
    /\ pc = "idle"
    /\ pc' = "returned"
    /\ call' = [op |-> "get_neighbors", node |-> node]
    /\ ret' = get_neighbors(G, node)
    /\ UNCHANGED <<nodes, edges, search>>

\* A call of find
call_find(predicate) ==
    /\ pc = "idle"
    /\ pc' = "returned"
    /\ call' = [op |-> "find", predicate |-> predicate]
    /\ ret' = Returned(find(G, predicate))
    /\ UNCHANGED <<nodes, edges, search>>

\* A call of find_nodes
call_find_nodes(predicate) ==
    /\ pc = "idle"
    /\ pc' = "returned"
    /\ call' = [op |-> "find_nodes", predicate |-> predicate]
    /\ ret' = Returned(find_nodes(G, predicate))
    /\ UNCHANGED <<nodes, edges, search>>

\* ------------------------------------------------------------------------
\* The searches of the Graph trait
\* ------------------------------------------------------------------------

\* The closures the callers pass.  cost_fn is |data| *data, as in the tests and
\* the examples; frontier_fn and target_fn test membership of the payload in a set.
cost_fn(data) == data
Predicates == {{}} \cup {{v} : v \in Data} \cup {Data}
Test(p, data) == data \in p


\* DoublePriorityQueue::push: inserts the item, or changes its priority when
\* the item is already queued.
push(f, item, priority) == Insert(f, item, priority)

\* DoublePriorityQueue::pop_min removes an item of minimal priority; which one
\* among several of the same priority is up to the queue.
MinItems(f) == {i \in DOMAIN f : \A j \in DOMAIN f : f[i] <= f[j]}
Remove(f, item) == [x \in (DOMAIN f) \ {item} |-> f[x]]

\* The relaxation test as it would be with <= for <: an equal cost found
\* later replaces the entry.
Improves_on_ties(csf, next, new_cost) == ~ContainsKey(csf, next) \/ new_cost <= csf[next]

\* True when the relaxation step stores the new cost of `next`.
Improves(csf, next, new_cost) == ~ContainsKey(csf, next) \/ new_cost < csf[next]

\* The loop body as it would be if the cost were attached to the node being
\* left and not to the node being entered.
Relax_charging_departure(g, st, current, next) ==
    LET data == get_data(g, next)
        left == get_data(g, current) IN
    IF data = None \/ left = None THEN [status |-> "panic", st |-> st]
    ELSE LET new_cost == cost_fn(left[1]) + st.cost_so_far[current] IN
         IF Improves(st.cost_so_far, next, new_cost)
         THEN [status |-> "ok",
               st |-> SearchState(push(st.frontier, next, new_cost),
                                  Insert(st.came_from, next, current),
                                  Insert(st.cost_so_far, next, new_cost))]
         ELSE [status |-> "ok", st |-> st]

\* One pass of the for loop's body over the neighbor `next` of `current`.
\* Yields the new search state, or a panic.
Relax(g, st, current, next) ==
    LET data == get_data(g, next) IN
    IF data = None THEN [status |-> "panic", st |-> st]   \* unwrap() of None
    ELSE LET new_cost == cost_fn(data[1]) + st.cost_so_far[current] IN
         IF Improves(st.cost_so_far, next, new_cost)
         THEN [status |-> "ok",
               st |-> SearchState(push(st.frontier, next, new_cost),
                                  Insert(st.came_from, next, current),
                                  Insert(st.cost_so_far, next, new_cost))]
         ELSE [status |-> "ok", st |-> st]

\* The for loop over get_neighbors(current).
RECURSIVE RelaxAll(_, _, _, _)
RelaxAll(g, st, current, todo) ==
    IF todo = <<>> THEN [status |-> "ok", st |-> st]
    ELSE LET r == Relax(g, st, current, Head(todo)) IN
         IF r.status = "ok" THEN RelaxAll(g, r.st, current, Tail(todo)) ELSE r

\* The part of the loop body after the test for the target: look up the
\* neighbors of the popped node and relax them.
Expand(g, st, current) ==
    LET f == Remove(st.frontier, current)
        popped == SearchState(f, st.came_from, st.cost_so_far)
        neighbors == get_neighbors(g, current) IN
    IF neighbors.status /= "ok" THEN [status |-> neighbors.status, st |-> popped]
    ELSE RelaxAll(g, popped, current, neighbors.value)

\* The backward walk of reconstruct_path / reconstruct_path_closure from
\* `current` until `stop` holds; a walk longer than the map never ends.
RECURSIVE WalkBack(_, _, _, _)
WalkBack(cf, current, stops, fuel) ==
    IF current \in stops THEN Returned(<<>>)
    ELSE IF fuel = 0 THEN [status |-> "diverges", value |-> <<>>, msg |-> ""]
    ELSE IF ~ContainsKey(cf, current) THEN Panicked("key not found")
    ELSE LET rest == WalkBack(cf, cf[current], stops, fuel - 1) IN
         IF rest.status = "ok" THEN Returned(<<current>> \o rest.value) ELSE rest

\* reconstruct_path as it would be without the final path.reverse().
reconstruct_path_unreversed(cf, start, target) ==
    IF ~ContainsKey(cf, target) THEN Returned(<<>>)
    ELSE LET walk == WalkBack(cf, target, {start}, Cardinality(DOMAIN cf) + 1) IN
         IF walk.status = "ok" THEN Returned(walk.value \o <<start>>) ELSE walk

\* reconstruct_path
reconstruct_path(cf, start, target) ==
    IF ~ContainsKey(cf, target) THEN Returned(<<>>)
    ELSE LET walk == WalkBack(cf, target, {start}, Cardinality(DOMAIN cf) + 1) IN
         IF walk.status = "ok" THEN Returned(Reverse(walk.value \o <<start>>)) ELSE walk

\* The node at which the backward walk of reconstruct_path_closure stops.
RECURSIVE WalkEnd(_, _, _, _)
WalkEnd(cf, current, stops, fuel) ==
    IF current \in stops \/ fuel = 0 \/ ~ContainsKey(cf, current) THEN current
    ELSE WalkEnd(cf, cf[current], stops, fuel - 1)

\* reconstruct_path_closure as it would be if the walk stopped one node early:
\* the frontier node is pushed by the loop as well as after it.
reconstruct_path_closure_twice(cf, start_nodes, target) ==
    IF target = None THEN Returned(<<>>)
    ELSE LET fuel == Cardinality(DOMAIN cf) + 1
             walk == WalkBack(cf, target[1], Range(start_nodes), fuel)
             last == WalkEnd(cf, target[1], Range(start_nodes), fuel) IN
         IF walk.status /= "ok" THEN walk
         ELSE IF ~ContainsKey(cf, last) THEN Panicked("key not found")
         ELSE Returned(Reverse(walk.value \o <<last, cf[last]>>))

\* reconstruct_path_closure
reconstruct_path_closure(cf, start_nodes, target) ==
    IF target = None THEN Returned(<<>>)
    ELSE LET fuel == Cardinality(DOMAIN cf) + 1
             walk == WalkBack(cf, target[1], Range(start_nodes), fuel)
             last == WalkEnd(cf, target[1], Range(start_nodes), fuel) IN
         IF walk.status /= "ok" THEN walk
         ELSE IF ~ContainsKey(cf, last) THEN Panicked("key not found")
         ELSE Returned(Reverse(walk.value \o <<cf[last]>>))

\* What the end of a call leaves: the search state is dropped.
Finish(r) ==
    /\ pc' = "returned"
    /\ ret' = r
    /\ frontier' = EmptyMap
    /\ came_from' = EmptyMap
    /\ cost_so_far' = EmptyMap

Continue(st) ==
    /\ frontier' = st.frontier
    /\ came_from' = st.came_from
    /\ cost_so_far' = st.cost_so_far
    /\ UNCHANGED <<pc, ret>>

Abort(status) ==
    IF status = "panic" THEN Panicked("search panicked")
    ELSE [status |-> status, value |-> <<>>, msg |-> ""]

\* The setup of Graph::dijkstra as it would be without came_from.insert(start, start).
DijkstraInit_unseeded(start) ==
    SearchState(push(EmptyMap, start, 0), EmptyMap, Insert(EmptyMap, start, 0))

\* The state of Graph::dijkstra when it enters its while loop.
DijkstraInit(start) ==
    SearchState(push(EmptyMap, start, 0), Insert(EmptyMap, start, start), Insert(EmptyMap, start, 0))

\* One pass of the while loop of Graph::dijkstra, with its exits: the possible
\* results, one for each item pop_min can yield.
DijkstraPass(g, st, start, target) ==
    IF DOMAIN st.frontier = {}
    THEN {[done |-> TRUE, ret |-> reconstruct_path(st.came_from, start, target), st |-> st]}
    ELSE {IF current = target
          THEN [done |-> TRUE, ret |-> reconstruct_path(st.came_from, start, target), st |-> st]
          ELSE LET r == Expand(g, st, current) IN
               IF r.status = "ok" THEN [done |-> FALSE, ret |-> Running, st |-> r.st]
               ELSE [done |-> TRUE, ret |-> Abort(r.status), st |-> r.st]
          : current \in MinItems(st.frontier)}

\* Graph::dijkstra: the call and its setup
dijkstra(start, target) ==
    /\ pc = "idle"
    /\ pc' = "dijkstra"
    /\ call' = [op |-> "dijkstra", start |-> start, target |-> target]
    /\ ret' = Running
    /\ LET st == DijkstraInit(start) IN
        /\ frontier' = st.frontier
        /\ came_from' = st.came_from
        /\ cost_so_far' = st.cost_so_far
    /\ UNCHANGED <<nodes, edges>>

\* dijkstra's loop as it would be if the search wrote into the graph it walks:
\* the start node's payload is set to the cost the start contributes.
dijkstra_loop_writing_start ==
    /\ pc = "dijkstra"
    /\ \E r \in DijkstraPass(G, St, call.start, call.target) :
          IF r.done THEN Finish(r.ret) ELSE Continue(r.st)
    /\ nodes' = [i \in 1..Len(nodes) |->
                    IF i = call.start + 1 THEN [nodes[i] EXCEPT !.data = 0] ELSE nodes[i]]
    /\ UNCHANGED <<edges, call>>

\* Graph::dijkstra: a pass of the while loop, up to the return when the loop ends
dijkstra_loop ==
    /\ pc = "dijkstra"
    /\ \E r \in DijkstraPass(G, St, call.start, call.target) :
          IF r.done THEN Finish(r.ret) ELSE Continue(r.st)
    /\ UNCHANGED <<nodes, edges, call>>

\* The seeding as it would be without came_from.insert(index, index).
RECURSIVE Seed_without_predecessor(_, _)
Seed_without_predecessor(st, indices) ==
    IF indices = <<>> THEN st
    ELSE Seed_without_predecessor(SearchState(push(st.frontier, Head(indices), 0),
                                              st.came_from,
                                              Insert(st.cost_so_far, Head(indices), 0)),
                                  Tail(indices))

\* The state of Graph::dijkstra_search_with_closure when it enters its while loop.
RECURSIVE Seed(_, _)
Seed(st, indices) ==
    IF indices = <<>> THEN st
    ELSE Seed(SearchState(push(st.frontier, Head(indices), 0),
                          Insert(st.came_from, Head(indices), Head(indices)),
                          Insert(st.cost_so_far, Head(indices), 0)), Tail(indices))

ClosureInit(frontier_indices) == Seed(SearchState(EmptyMap, EmptyMap, EmptyMap), frontier_indices)

\* One pass of the while loop of Graph::dijkstra_search_with_closure.
ClosurePass(g, st, frontier_indices, target_fn) ==
    IF DOMAIN st.frontier = {}
    THEN {[done |-> TRUE, ret |-> reconstruct_path_closure(st.came_from, frontier_indices, None), st |-> st]}
    ELSE {LET data == get_data(g, current) IN
          IF data = None THEN [done |-> TRUE, ret |-> Abort("panic"), st |-> st]
          ELSE IF Test(target_fn, data[1])
          THEN [done |-> TRUE,
                ret |-> reconstruct_path_closure(st.came_from, frontier_indices, Some(current)),
                st |-> st]
          ELSE LET r == Expand(g, st, current) IN
               IF r.status = "ok" THEN [done |-> FALSE, ret |-> Running, st |-> r.st]
               ELSE [done |-> TRUE, ret |-> Abort(r.status), st |-> r.st]
          : current \in MinItems(st.frontier)}

\* Graph::dijkstra_search_with_closure: the call and its setup
dijkstra_search_with_closure(frontier_fn, target_fn) ==
    /\ pc = "idle"
    /\ pc' = "closure"
    /\ call' = [op |-> "dijkstra_search_with_closure",
                frontier_fn |-> frontier_fn, target_fn |-> target_fn]
    /\ ret' = Running
    /\ LET st == ClosureInit(find_nodes(G, frontier_fn)) IN
        /\ frontier' = st.frontier
        /\ came_from' = st.came_from
        /\ cost_so_far' = st.cost_so_far
    /\ UNCHANGED <<nodes, edges>>

\* Graph::dijkstra_search_with_closure: a pass of the while loop, up to the return
closure_loop ==
    /\ pc = "closure"
    /\ \E r \in ClosurePass(G, St, find_nodes(G, call.frontier_fn), call.target_fn) :
          IF r.done THEN Finish(r.ret) ELSE Continue(r.st)
    /\ UNCHANGED <<nodes, edges, call>>

\* Every result a whole run of each search can have, over the choices of pop_min.
RECURSIVE DijkstraFrom(_, _, _, _)
DijkstraFrom(g, st, start, target) ==
    UNION {IF r.done THEN {r.ret} ELSE DijkstraFrom(g, r.st, start, target)
           : r \in DijkstraPass(g, st, start, target)}

DijkstraResults(g, start, target) == DijkstraFrom(g, DijkstraInit(start), start, target)

RECURSIVE ClosureFrom(_, _, _, _)
ClosureFrom(g, st, frontier_indices, target_fn) ==
    UNION {IF r.done THEN {r.ret} ELSE ClosureFrom(g, r.st, frontier_indices, target_fn)
           : r \in ClosurePass(g, st, frontier_indices, target_fn)}

ClosureResults(g, frontier_fn, target_fn) ==
    ClosureFrom(g, ClosureInit(find_nodes(g, frontier_fn)), find_nodes(g, frontier_fn), target_fn)

\* ------------------------------------------------------------------------
\* RcGraph
\* ------------------------------------------------------------------------
\* The RcGraph as a value: its nodes and the cells its neighbor lists point at.
RcGraph(ns, heap) == [nodes |-> ns, heap |-> heap]
RG == RcGraph(rc_nodes, rc_heap)

\* Vec indexing (self.nodes[i]) panics where Vec::get yields None.
IndexOutOfBounds == Panicked("index out of bounds")

\* RcGraph::add_node as it would be if the handle were taken after the push.
rc_add_node_counting_after(data) ==
    /\ Len(rc_nodes) < MaxNodes
    /\ LET index == Len(rc_nodes) IN
        /\ rc_nodes' = Append(rc_nodes, [data |-> data, index |-> index, neighbors |-> <<>>])
        /\ rc_ret' = Returned(Len(rc_nodes'))
    /\ UNCHANGED rc_heap

\* RcGraph::add_node
rc_add_node(data) ==
    /\ Len(rc_nodes) < MaxNodes
    /\ LET index == Len(rc_nodes) IN
        /\ rc_nodes' = Append(rc_nodes, [data |-> data, index |-> index, neighbors |-> <<>>])
        /\ rc_ret' = Returned(index)
    /\ UNCHANGED rc_heap

\* RcGraph::add_edge as it would be if the new neighbor went to the front of the list.
rc_add_edge_in_front(source, target) ==
    /\ \/ Len(rc_heap) < MaxEdges
       \/ Get(rc_nodes, target) = None
       \/ Get(rc_nodes, source) = None
    /\ IF Get(rc_nodes, target) = None \/ Get(rc_nodes, source) = None
       THEN /\ rc_ret' = IndexOutOfBounds
            /\ UNCHANGED <<rc_nodes, rc_heap>>
       ELSE LET t == rc_nodes[target + 1]
                address == Len(rc_heap) + 1 IN
            /\ rc_heap' = Append(rc_heap, t)
            /\ rc_nodes' = [rc_nodes EXCEPT ![source + 1].neighbors = <<address>> \o @]
            /\ rc_ret' = Returned(<<>>)

\* RcGraph::add_edge: the target node is cloned (its payload, its index and
\* its list of neighbor addresses) into a new cell, whose address is pushed
\* on the source's neighbor list.
rc_add_edge(source, target) ==
    \* the cells of the model are bounded: only a call that allocates one needs room
    /\ \/ Len(rc_heap) < MaxEdges
       \/ Get(rc_nodes, target) = None
       \/ Get(rc_nodes, source) = None
    /\ IF Get(rc_nodes, target) = None          \* self.nodes[target.0]
       THEN /\ rc_ret' = IndexOutOfBounds
            /\ UNCHANGED <<rc_nodes, rc_heap>>
       ELSE IF Get(rc_nodes, source) = None     \* self.nodes[source.0]
       THEN /\ rc_ret' = IndexOutOfBounds
            /\ UNCHANGED <<rc_nodes, rc_heap>>
       ELSE LET t == rc_nodes[target + 1]
                address == Len(rc_heap) + 1 IN
            /\ rc_heap' = Append(rc_heap, t)
            /\ rc_nodes' = [rc_nodes EXCEPT ![source + 1].neighbors = Append(@, address)]
            /\ rc_ret' = Returned(<<>>)

\* RcGraph::get_data
rc_get_data(g, node) ==
    LET n == Get(g.nodes, node) IN
    IF n /= None THEN Some(n[1].data) ELSE None

\* RcGraph::get_data_mut: the payload the returned reference points at
rc_get_data_mut(g, node) ==
    LET n == Get(g.nodes, node) IN
    IF n /= None THEN Some(n[1].data) ELSE None

\* RcGraph::get_neighbors
rc_get_neighbors(g, node) ==
    IF Get(g.nodes, node) = None THEN IndexOutOfBounds
    ELSE LET neighbors == g.nodes[node + 1].neighbors IN
         Returned([i \in 1..Len(neighbors) |-> g.heap[neighbors[i]].index])

\* RcGraph::find, for the predicate "the payload is in the set p"
RECURSIVE RcFindFirst(_, _)
RcFindFirst(ns, p) ==
    IF ns = <<>> THEN None
    ELSE IF Head(ns).data \in p THEN Some(Head(ns).index)
    ELSE RcFindFirst(Tail(ns), p)

rc_find(g, p) == RcFindFirst(g.nodes, p)

\* The calls of the accessors on the RcGraph
rc_call_get_data(node) ==
    /\ rc_ret' = Returned(rc_get_data(RG, node))
    /\ UNCHANGED <<rc_nodes, rc_heap>>

\* get_data_mut as it would be if the neighbor cells shared the payload of the
\* node they were cloned from: a write reaches every cell made of the node.
rc_call_get_data_mut_shared(node, write) ==
    /\ rc_ret' = Returned(rc_get_data_mut(RG, node))
    /\ IF rc_get_data_mut(RG, node) /= None /\ write /= None
       THEN /\ rc_nodes' = [rc_nodes EXCEPT ![node + 1].data = write[1]]
            /\ rc_heap' = [a \in 1..Len(rc_heap) |->
                              IF rc_heap[a].index = node
                              THEN [rc_heap[a] EXCEPT !.data = write[1]]
                              ELSE rc_heap[a]]
       ELSE UNCHANGED <<rc_nodes, rc_heap>>

rc_call_get_data_mut(node, write) ==
    /\ rc_ret' = Returned(rc_get_data_mut(RG, node))
    /\ rc_nodes' = IF rc_get_data_mut(RG, node) /= None /\ write /= None
                   THEN [rc_nodes EXCEPT ![node + 1].data = write[1]]
                   ELSE rc_nodes
    /\ UNCHANGED rc_heap

rc_call_get_neighbors(node) ==
    /\ rc_ret' = rc_get_neighbors(RG, node)
    /\ UNCHANGED <<rc_nodes, rc_heap>>

rc_call_find(predicate) ==
    /\ rc_ret' = Returned(rc_find(RG, predicate))
    /\ UNCHANGED <<rc_nodes, rc_heap>>

\* The write of test::can_add_edge through a neighbor cell:
\* graph.nodes[source].neighbors[position].borrow_mut().data = value
neighbor_write(source, position, value) ==
    /\ pc = "idle"
    /\ Get(rc_nodes, source) /= None
    /\ Get(rc_nodes[source + 1].neighbors, position) /= None
    /\ pc' = "returned"
    /\ call' = [op |-> "neighbor_write", source |-> source, position |-> position, value |-> value]
    /\ rc_heap' = [rc_heap EXCEPT ![rc_nodes[source + 1].neighbors[position + 1]].data = value]
    /\ rc_ret' = Returned(<<>>)
    /\ ret' = NoResult
    /\ UNCHANGED <<nodes, edges, search, rc_nodes>>

\* RcGraph::dijkstra, the body of the for loop over the neighbor `next`
RcRelax(g, st, current, next) ==
    LET data == rc_get_data(g, next) IN
    IF data = None THEN [status |-> "panic", st |-> st]   \* unwrap() of None
    ELSE LET new_cost == cost_fn(data[1]) + st.cost_so_far[current] IN
         IF ~ContainsKey(st.cost_so_far, next) \/ new_cost < st.cost_so_far[next]
         THEN [status |-> "ok",
               st |-> SearchState(push(st.frontier, next, new_cost),
                                  Insert(st.came_from, next, current),
                                  Insert(st.cost_so_far, next, new_cost))]
         ELSE [status |-> "ok", st |-> st]

\* RcGraph::dijkstra, the for loop over get_neighbors(current)
RECURSIVE RcRelaxAll(_, _, _, _)
RcRelaxAll(g, st, current, todo) ==
    IF todo = <<>> THEN [status |-> "ok", st |-> st]
    ELSE LET r == RcRelax(g, st, current, Head(todo)) IN
         IF r.status = "ok" THEN RcRelaxAll(g, r.st, current, Tail(todo)) ELSE r

RcExpand(g, st, current) ==
    LET f == Remove(st.frontier, current)
        popped == SearchState(f, st.came_from, st.cost_so_far)
        neighbors == rc_get_neighbors(g, current) IN
    IF neighbors.status /= "ok" THEN [status |-> neighbors.status, st |-> popped]
    ELSE RcRelaxAll(g, popped, current, neighbors.value)

\* reconstruct_path of rc_graph.rs as it would be without the final path.reverse().
rc_reconstruct_path_unreversed(cf, start, target) ==
    IF ~ContainsKey(cf, target) THEN Returned(<<>>)
    ELSE LET walk == WalkBack(cf, target, {start}, Cardinality(DOMAIN cf) + 1) IN
         IF walk.status = "ok" THEN Returned(walk.value \o <<start>>) ELSE walk

\* reconstruct_path of rc_graph.rs
rc_reconstruct_path(cf, start, target) ==
    IF ~ContainsKey(cf, target) THEN Returned(<<>>)
    ELSE LET walk == WalkBack(cf, target, {start}, Cardinality(DOMAIN cf) + 1) IN
         IF walk.status = "ok" THEN Returned(Reverse(walk.value \o <<start>>)) ELSE walk

\* The state of RcGraph::dijkstra when it enters its while loop.
RcDijkstraInit(start) ==
    SearchState(push(EmptyMap, start, 0), Insert(EmptyMap, start, start), Insert(EmptyMap, start, 0))

\* One pass of the while loop of RcGraph::dijkstra, with its exits.
RcDijkstraPass(g, st, start, target) ==
    IF DOMAIN st.frontier = {}
    THEN {[done |-> TRUE, ret |-> rc_reconstruct_path(st.came_from, start, target), st |-> st]}
    ELSE {IF current = target
          THEN [done |-> TRUE, ret |-> rc_reconstruct_path(st.came_from, start, target), st |-> st]
          ELSE LET r == RcExpand(g, st, current) IN
               IF r.status = "ok" THEN [done |-> FALSE, ret |-> Running, st |-> r.st]
               ELSE [done |-> TRUE, ret |-> Abort(r.status), st |-> r.st]
          : current \in MinItems(st.frontier)}

\* RcGraph::dijkstra: every outcome the call can have
RECURSIVE RcDijkstraFrom(_, _, _, _)
RcDijkstraFrom(g, st, start, target) ==
    UNION {IF r.done THEN {r.ret} ELSE RcDijkstraFrom(g, r.st, start, target)
           : r \in RcDijkstraPass(g, st, start, target)}

rc_dijkstra(g, start, target) == RcDijkstraFrom(g, RcDijkstraInit(start), start, target)

\* reconstruct_path_multiple_start of rc_graph.rs: after the walk, current
\* is replaced by its predecessor and pushed.
reconstruct_path_multiple_start(cf, start, target) ==
    IF target = None THEN Returned(<<>>)
    ELSE LET fuel == Cardinality(DOMAIN cf) + 1
             walk == WalkBack(cf, target[1], Range(start), fuel)
             last == WalkEnd(cf, target[1], Range(start), fuel) IN
         IF walk.status /= "ok" THEN walk
         ELSE IF ~ContainsKey(cf, last) THEN Panicked("key not found")
         ELSE LET current == cf[last] IN Returned(Reverse(walk.value \o <<current>>))

\* ------------------------------------------------------------------------
\* Directions and Grid
\* ------------------------------------------------------------------------
\* RelativeDirection::to_cardinal
to_cardinal(direction) ==
    CASE direction = "Up" -> "North"
      [] direction = "Right" -> "East"
      [] direction = "Down" -> "South"
      [] direction = "Left" -> "West"

\* CardinalDirection::get_offset: (row_offset, col_offset)
cardinal_get_offset(direction) ==
    CASE direction = "North" -> <<-1, 0>>
      [] direction = "East" -> <<0, 1>>
      [] direction = "South" -> <<1, 0>>
      [] direction = "West" -> <<0, -1>>

\* get_offset as it would be if it yielded (col_offset, row_offset).
get_offset_transposed(direction) ==
    LET o == cardinal_get_offset(to_cardinal(direction)) IN <<o[2], o[1]>>

\* RelativeDirection::get_offset
get_offset(direction) == cardinal_get_offset(to_cardinal(direction))

\* CardinalDirection::to_relative
to_relative(direction) ==
    CASE direction = "North" -> "Up"
      [] direction = "East" -> "Right"
      [] direction = "South" -> "Down"
      [] direction = "West" -> "Left"

CardinalDirections == {"North", "East", "South", "West"}
RelativeDirections == {"Up", "Right", "Down", "Left"}

\* Offsets are pairs of i8: the components near 0 and the two ends of the type.
OffsetComponents == (-MaxOffset..MaxOffset) \cup {-128, 127}
Offsets == OffsetComponents \X OffsetComponents

\* from_offset as it would be if it read the offset as (col_offset, row_offset).
cardinal_from_offset_transposed(offset) ==
    CASE offset = <<0, -1>> -> Returned("North")
      [] offset = <<0, 1>> -> Returned("South")
      [] offset = <<1, 0>> -> Returned("East")
      [] offset = <<-1, 0>> -> Returned("West")
      [] offset = <<0, 0>> ->
            Panicked("(0, 0) is not a valid offset, as it represents the current position.")
      [] OTHER -> Panicked("Invalid format!")

\* CardinalDirection::from_offset
cardinal_from_offset(offset) ==
    CASE offset = <<-1, 0>> -> Returned("North")
      [] offset = <<1, 0>> -> Returned("South")
      [] offset = <<0, 1>> -> Returned("East")
      [] offset = <<0, -1>> -> Returned("West")
      [] offset = <<0, 0>> ->
            Panicked("(0, 0) is not a valid offset, as it represents the current position.")
      [] OTHER -> Panicked("Invalid format!")

\* RelativeDirection::from_offset: the panic of CardinalDirection::from_offset
\* unwinds through it.
from_offset(offset) ==
    LET cardinal == cardinal_from_offset(offset) IN
    IF cardinal.status = "ok" THEN Returned(to_relative(cardinal.value)) ELSE cardinal

call_cardinal_get_offset(direction) ==
    /\ pc = "idle"
    /\ pc' = "returned"
    /\ call' = [op |-> "CardinalDirection::get_offset", direction |-> direction]
    /\ ret' = Returned(cardinal_get_offset(direction))
    /\ UNCHANGED <<nodes, edges, search, beside_vec>>

call_get_offset(direction) ==
    /\ pc = "idle"
    /\ pc' = "returned"
    /\ call' = [op |-> "RelativeDirection::get_offset", direction |-> direction]
    /\ ret' = Returned(get_offset(direction))
    /\ UNCHANGED <<nodes, edges, search, beside_vec>>

call_cardinal_from_offset(offset) ==
    /\ pc = "idle"
    /\ pc' = "returned"
    /\ call' = [op |-> "CardinalDirection::from_offset", offset |-> offset]
    /\ ret' = cardinal_from_offset(offset)
    /\ UNCHANGED <<nodes, edges, search, beside_vec>>

call_from_offset(offset) ==
    /\ pc = "idle"
    /\ pc' = "returned"
    /\ call' = [op |-> "RelativeDirection::from_offset", offset |-> offset]
    /\ ret' = from_offset(offset)
    /\ UNCHANGED <<nodes, edges, search, beside_vec>>

\* VecGraph::add_node and VecGraph::add_edge as functions of the graph, for
\* the calls new_from_data makes on the graph it builds.
VecAddNode(g, data) ==
    LET index == Len(g.nodes) IN
    [g |-> Graph(Append(g.nodes, [data |-> data, index |-> index, first_outgoing_edge |-> None]),
                 g.edges),
     ret |-> Returned(index)]

VecAddEdge(g, source, target) ==
    LET edge_index == Len(g.edges) IN
    IF TargetNotFound(Len(g.nodes), target)
    THEN [g |-> g, ret |-> Panicked("Target node not found!")]
    ELSE IF Get(g.nodes, source) = None
    THEN [g |-> g, ret |-> Panicked("Source node not found.")]
    ELSE [g |-> Graph([g.nodes EXCEPT ![source + 1].first_outgoing_edge = Some(edge_index)],
                      Append(g.edges,
                             [target |-> target,
                              next_outgoing_edge |-> g.nodes[source + 1].first_outgoing_edge])),
          ret |-> Returned(<<>>)]

\* The arrays new_from_data is given: up to MaxRows rows of up to MaxCols
\* payloads each, the rows not necessarily of one length.
GridData == 0..MaxGridData
GridRows == UNION {[1..c -> GridData] : c \in 0..MaxCols}
GridInputs == UNION {[1..r -> GridRows] : r \in 0..MaxRows}
GridHandles == 0..(MaxRows * MaxCols)

\* The free function get_neighbors of grid.rs: the entries of `grid` above,
\* right of, below and left of (row, col), in the order the function yields them.
grid_get_neighbors(grid, col, row) ==
    IF ~(grid /= <<>> /\ \A l \in 1..Len(grid) : Len(grid[l]) = Len(grid[1]))
    THEN Panicked("assertion failed")
    ELSE LET height == Len(grid)
             width == Len(grid[1])
             up == row /= 0
             down == row < height - 1
             left == col /= 0
             right == col < width - 1
             offsets == (IF up THEN <<get_offset("Up")>> ELSE <<>>)
                        \o (IF right THEN <<get_offset("Right")>> ELSE <<>>)
                        \o (IF down THEN <<get_offset("Down")>> ELSE <<>>)
                        \o (IF left THEN <<get_offset("Left")>> ELSE <<>>)
             reversed == Reverse(offsets)
             Entry(offset) ==
                 LET o_row == row + offset[1]
                     o_col == col + offset[2]
                     line == Get(grid, o_row) IN
                 IF line = None THEN None ELSE Get(line[1], o_col) IN
         IF \E i \in 1..Len(reversed) : Entry(reversed[i]) = None
         THEN IndexOutOfBounds
         ELSE Returned([i \in 1..Len(reversed) |-> Entry(reversed[i])[1]])

\* new_from_data, first loop: a node for each payload of a row, of each row.
RECURSIVE AddRow(_, _)
AddRow(g, payloads) ==
    IF payloads = <<>> THEN [g |-> g, indices |-> <<>>]
    ELSE LET current == VecAddNode(g, Head(payloads))
             rest == AddRow(current.g, Tail(payloads)) IN
         [g |-> rest.g, indices |-> <<current.ret.value>> \o rest.indices]

RECURSIVE AddRows(_, _)
AddRows(g, data) ==
    IF data = <<>> THEN [g |-> g, nodes |-> <<>>]
    ELSE LET first == AddRow(g, Head(data))
             rest == AddRows(first.g, Tail(data)) IN
         [g |-> rest.g, nodes |-> <<first.indices>> \o rest.nodes]

\* new_from_data, second loop: the cells in the order the loops visit them.
RECURSIVE CellsFrom(_, _)
CellsFrom(nodes_of, row) ==
    IF row >= Len(nodes_of) THEN <<>>
    ELSE [col \in 1..Len(nodes_of[row + 1]) |-> <<row, col - 1>>] \o CellsFrom(nodes_of, row + 1)

\* for neighbor in neighbors { graph.add_edge(current, neighbor) }
RECURSIVE AddEdges(_, _, _)
AddEdges(g, current, neighbors) ==
    IF neighbors = <<>> THEN [g |-> g, ret |-> Returned(<<>>)]
    ELSE LET r == VecAddEdge(g, current, Head(neighbors)) IN
         IF r.ret.status = "ok" THEN AddEdges(r.g, current, Tail(neighbors)) ELSE r

RECURSIVE ConnectCells(_, _, _)
ConnectCells(g, nodes_of, cells) ==
    IF cells = <<>> THEN [g |-> g, ret |-> Returned(<<>>)]
    ELSE LET row == Head(cells)[1]
             col == Head(cells)[2]
             current == nodes_of[row + 1][col + 1]
             neighbors == grid_get_neighbors(nodes_of, col, row) IN
         IF neighbors.status /= "ok" THEN [g |-> g, ret |-> neighbors]
         ELSE LET r == AddEdges(g, current, neighbors.value) IN
              IF r.ret.status = "ok" THEN ConnectCells(r.g, nodes_of, Tail(cells)) ELSE r

\* Grid::new_from_data as a function of its argument: the graph, the node
\* handles by cell, and whether the call returns.
GridFromData(data) ==
    LET added == AddRows(Graph(<<>>, <<>>), data)
        connected == ConnectCells(added.g, added.nodes, CellsFrom(added.nodes, 0)) IN
    [g |-> connected.g, node_indices |-> Some(added.nodes), ret |-> connected.ret]

\* Grid::new_from_data: the Grid the model follows is built once.
new_from_data(data) ==
    /\ pc = "idle"
    /\ node_indices = None /\ nodes = <<>>
    /\ pc' = "returned"
    /\ call' = [op |-> "new_from_data", data |-> data]
    /\ LET r == GridFromData(data) IN
       IF r.ret.status = "ok"
       THEN /\ nodes' = r.g.nodes
            /\ edges' = r.g.edges
            /\ node_indices' = r.node_indices
            /\ ret' = Returned(<<>>)
       ELSE /\ ret' = r.ret
            /\ UNCHANGED <<nodes, edges, node_indices>>
    /\ UNCHANGED <<search, rc, built_validly>>

\* Grid::first_index
first_index(indices_opt) ==
    IF indices_opt /= None
    THEN LET indices == indices_opt[1] IN
         IF indices /= <<>>                      \* indices.first()
         THEN LET row == indices[1] IN
              IF row /= <<>> THEN Some(row[1]) ELSE None
         ELSE None
    ELSE None

\* last_index as it would be if it took the last handle of the first row.
last_index_of_first_row(indices_opt) ==
    IF indices_opt /= None
    THEN LET indices == indices_opt[1] IN
         IF indices /= <<>>
         THEN LET row == indices[1] IN
              IF row /= <<>> THEN Some(row[Len(row)]) ELSE None
         ELSE None
    ELSE None

\* Grid::last_index
last_index(indices_opt) ==
    IF indices_opt /= None
    THEN LET indices == indices_opt[1] IN
         IF indices /= <<>>                      \* indices.last()
         THEN LET row == indices[Len(indices)] IN
              IF row /= <<>> THEN Some(row[Len(row)]) ELSE None
         ELSE None
    ELSE None

\* A call of first_index
call_first_index ==
    /\ pc = "idle"
    /\ pc' = "returned"
    /\ call' = [op |-> "first_index"]
    /\ ret' = Returned(first_index(node_indices))
    /\ UNCHANGED <<nodes, edges, search, rc, built_validly, node_indices>>

\* A call of last_index
call_last_index ==
    /\ pc = "idle"
    /\ pc' = "returned"
    /\ call' = [op |-> "last_index"]
    /\ ret' = Returned(last_index(node_indices))
    /\ UNCHANGED <<nodes, edges, search, rc, built_validly, node_indices>>

\* Grid::add_node and Grid::add_edge hand the call to the VecGraph inside;
\* node_indices is left as it is.
grid_add_node(data) ==
    /\ add_node(data)
    /\ UNCHANGED <<rc, built_validly, node_indices>>

grid_add_edge(source, target) ==
    /\ add_edge(source, target)
    /\ UNCHANGED <<rc, built_validly, node_indices>>

\* ------------------------------------------------------------------------
\* Reference notions the properties are stated with
\* ------------------------------------------------------------------------
Valid(h) == h >= 0 /\ h < Len(nodes)
ValidHandles == {h \in Handles : Valid(h)}

\* v is a neighbor of u, by get_neighbors
Neighbor(u, v) ==
    /\ Valid(u)
    /\ get_neighbors(G, u).status = "ok"
    /\ v \in Range(get_neighbors(G, u).value)

\* An edge stored in the arena whose target is no node of the graph.
Dangling(i) == i \in 1..Len(edges) /\ ~Valid(edges[i].target)

\* Cost of entering node v
NodeCost(v) == cost_fn(nodes[v + 1].data)

\* Costs of the cycle-free walks from u to t over existing nodes; with
\* non-negative costs their minimum is the minimum over all walks.
RECURSIVE WalkCosts(_, _, _)
WalkCosts(u, t, visited) ==
    IF u = t THEN {0}
    ELSE UNION {{NodeCost(v) + c : c \in WalkCosts(v, t, visited \cup {v})}
                : v \in {w \in ValidHandles \ visited : Neighbor(u, w)}}

Reachable(s, t) == WalkCosts(s, t, {s}) /= {}
Minimum(S) == CHOOSE m \in S : \A x \in S : m <= x
MinCost(s, t) == Minimum(WalkCosts(s, t, {s}))

\* Cumulative cost of a path: the cost of every node after the first
RECURSIVE PathCost(_)
PathCost(p) == IF Len(p) <= 1 THEN 0 ELSE NodeCost(p[Len(p)]) + PathCost(SubSeq(p, 1, Len(p) - 1))

IsPathOfGraph(p) == \A i \in 1..(Len(p) - 1) : Neighbor(p[i], p[i + 1])

DijkstraReturned == pc = "returned" /\ call.op = "dijkstra"
ClosureReturned == pc = "returned" /\ call.op = "dijkstra_search_with_closure"

FrontierNodes == Range(find_nodes(G, call.frontier_fn))
TargetNodes == Range(find_nodes(G, call.target_fn))
\* Costs of the walks from a frontier node to a target node
FrontierTargetCosts == UNION {WalkCosts(f, t, {f}) : f \in FrontierNodes, t \in TargetNodes}

\* ------------------------------------------------------------------------
\* Properties
\* ------------------------------------------------------------------------

\* C1: for valid handles s, t with t reachable from s, dijkstra(s, t, cost_fn)
\* returns a path whose cumulative cost is the minimum cost over all walks
\* from s to t.
C1_DijkstraReturnsMinimumCost ==
    (DijkstraReturned /\ Valid(call.start) /\ Valid(call.target)
        /\ Reachable(call.start, call.target))
    => /\ ret.status = "ok"
       /\ ret.value /= <<>>
       /\ PathCost(ret.value) = MinCost(call.start, call.target)

\* C2: add_edge(source, target) on a VecGraph panics whenever the index of
\* target is greater than or equal to the number of nodes.
C2_AddEdgeRejectsMissingTarget ==
    (pc = "returned" /\ call.op = "add_edge" /\ call.target >= Len(nodes))
    => ret.status = "panic"

\* C3: no step stores an edge whose target index is not strictly smaller
\* than the number of nodes existing when the edge is inserted.
C3_NoDanglingEdgeStored ==
    [][(Len(edges') > Len(edges)) => edges'[Len(edges')].target < Len(nodes)]_vars

\* C4: dijkstra called with a start or target handle out of range returns
\* normally with the empty sequence.
C4_InvalidHandleYieldsEmptyPath ==
    (DijkstraReturned /\ (~Valid(call.start) \/ ~Valid(call.target)))
    => (ret.status = "ok" /\ ret.value = <<>>)

\* C4 (amended): dijkstra with an out-of-range start panics in the neighbor
\* lookup when start differs from target and returns [start] when start equals
\* target; with a valid start and an out-of-range target it returns the empty
\* sequence, or panics when the search examines a dangling edge.
C4_InvalidHandleBehaviour ==
    DijkstraReturned =>
        /\ (~Valid(call.start) /\ call.start /= call.target) => ret.status = "panic"
        /\ (~Valid(call.start) /\ call.start = call.target)
              => (ret.status = "ok" /\ ret.value = <<call.start>>)
        /\ (Valid(call.start) /\ ~Valid(call.target))
              => \/ ret.status = "ok" /\ ret.value = <<>>
                 \/ ret.status = "panic" /\ \E i \in 1..Len(edges) : Dangling(i)

C4_Witness ==
    /\ DijkstraReturned
    /\ ~Valid(call.start)
    /\ call.start /= call.target
    /\ Valid(call.target)
    /\ ret.status = "panic"

\* C5: for every valid handle s, dijkstra(s, s, cost_fn) returns exactly [s],
\* whatever edges the graph has.
C5_StartEqualsTarget ==
    (DijkstraReturned /\ Valid(call.start) /\ call.start = call.target)
    => (ret.status = "ok" /\ ret.value = <<call.start>>)

C5_Witness ==
    /\ DijkstraReturned
    /\ Valid(call.start)
    /\ call.start = call.target
    /\ Neighbor(call.start, call.start)
    /\ ret.value = <<call.start>>

\* C6: for valid handles s /= t with no directed walk from s to t,
\* dijkstra(s, t, cost_fn) returns the empty sequence.
C6_UnreachableYieldsEmptyPath ==
    (DijkstraReturned /\ Valid(call.start) /\ Valid(call.target)
        /\ call.start /= call.target /\ ~Reachable(call.start, call.target))
    => (ret.status = "ok" /\ ret.value = <<>>)

\* C7: every non-empty result of dijkstra(start, target, cost_fn) starts at
\* start, ends at target, and each element is a neighbor of the one before it.
C7_ResultIsPathOfGraph ==
    (DijkstraReturned /\ ret.status = "ok" /\ ret.value /= <<>>)
    => /\ ret.value[1] = call.start
       /\ ret.value[Len(ret.value)] = call.target
       /\ IsPathOfGraph(ret.value)

C7_Witness ==
    /\ DijkstraReturned
    /\ ret.status = "ok"
    /\ Len(ret.value) = 3
    /\ ret.value[1] = call.start
    /\ IsPathOfGraph(ret.value)

\* C8: dijkstra_search_with_closure returns a non-empty path whenever a node
\* satisfying target_fn is reachable from a node satisfying frontier_fn, and
\* the cost of the path is the minimum over all walks from a frontier node to
\* a target node.
C8_ClosureReturnsMinimumCost ==
    (ClosureReturned /\ FrontierTargetCosts /= {})
    => /\ ret.status = "ok"
       /\ ret.value /= <<>>
       /\ PathCost(ret.value) = Minimum(FrontierTargetCosts)

\* C9: when exactly one node s satisfies frontier_fn and exactly one node t
\* satisfies target_fn, dijkstra_search_with_closure has the same results as
\* dijkstra(s, t, cost_fn) on the same graph.
C9_SingleFrontierSingleTarget ==
    pc = "idle" =>
        \A frontier_fn \in Predicates, target_fn \in Predicates :
            LET ss == find_nodes(G, frontier_fn)
                ts == find_nodes(G, target_fn) IN
            (Len(ss) = 1 /\ Len(ts) = 1)
            => ClosureResults(G, frontier_fn, target_fn) = DijkstraResults(G, ss[1], ts[1])

C9_Witness ==
    /\ pc = "idle"
    /\ \E frontier_fn \in Predicates, target_fn \in Predicates :
          LET ss == find_nodes(G, frontier_fn)
              ts == find_nodes(G, target_fn) IN
          /\ Len(ss) = 1
          /\ Len(ts) = 1
          /\ \E r \in ClosureResults(G, frontier_fn, target_fn) :
                r.status = "ok" /\ Len(r.value) = 3

\* C10: dijkstra_search_with_closure returns the empty sequence, without
\* failing, when no node satisfies frontier_fn and when no node satisfying
\* target_fn is reachable from the frontier.
C10_ClosureMissYieldsEmptyPath ==
    (ClosureReturned /\ (FrontierNodes = {} \/ FrontierTargetCosts = {}))
    => (ret.status = "ok" /\ ret.value = <<>>)


\* ------------------------------------------------------------------------
\* What the searches do on the graphs that hold no dangling edge
\* ------------------------------------------------------------------------
NoDanglingEdge == \A i \in 1..Len(edges) : ~Dangling(i)

DijkstraOptimalWithoutDanglingEdge == NoDanglingEdge => C1_DijkstraReturnsMinimumCost
DijkstraMissWithoutDanglingEdge == NoDanglingEdge => C6_UnreachableYieldsEmptyPath
ClosureOptimalWithoutDanglingEdge == NoDanglingEdge => C8_ClosureReturnsMinimumCost
ClosureMissWithoutDanglingEdge == NoDanglingEdge => C10_ClosureMissYieldsEmptyPath
SearchPanicsOnlyOnBadHandle ==
    (pc = "returned" /\ call.op \in {"dijkstra", "dijkstra_search_with_closure"})
    => /\ ret.status \in {"ok", "panic"}
       /\ ret.status = "panic"
            => \/ \E i \in 1..Len(edges) : Dangling(i)
               \/ call.op = "dijkstra" /\ ~Valid(call.start)

\* ------------------------------------------------------------------------
\* The neighbor lists of the arena graph
\* ------------------------------------------------------------------------
\* A step in which an add_edge call returns without a panic.
AddEdgeSucceeds == pc = "idle" /\ pc' = "returned" /\ call'.op = "add_edge" /\ ret'.status = "ok"
\* A step in which an add_edge call panics.
AddEdgeFails == pc = "idle" /\ pc' = "returned" /\ call'.op = "add_edge" /\ ret'.status = "panic"
\* The graph after the step.
GNext == Graph(nodes', edges')

\* C11: get_neighbors(s) of the arena graph lists the targets of the successful
\* add_edge(s, .) calls newest first: a successful add_edge(s, t) puts t in
\* front of the list of s and leaves every other list as it was, a new node
\* starts with the empty list, and no other step changes a list.
C11_NeighborsInReverseInsertionOrder ==
    [][/\ \A u \in ValidHandles :
            get_neighbors(GNext, u) =
                IF AddEdgeSucceeds /\ call'.source = u
                THEN Returned(<<call'.target>> \o get_neighbors(G, u).value)
                ELSE get_neighbors(G, u)
       /\ Len(nodes') > Len(nodes) => get_neighbors(GNext, Len(nodes)) = Returned(<<>>)]_vars

\* add_edge has returned on a source that now has two different neighbors,
\* the target of this call first.
C11_Witness ==
    /\ pc = "returned" /\ call.op = "add_edge" /\ ret.status = "ok"
    /\ Len(edges) = 2 /\ edges[1].target /= edges[2].target
    /\ get_neighbors(G, call.source) = Returned(<<edges[2].target, edges[1].target>>)
    /\ call.target = edges[2].target

\* C17: edges are directed and kept with their duplicates: a successful
\* add_edge(s, t) makes get_neighbors(s) one element longer, also when t is
\* already a neighbor of s and when t = s; it leaves the list of every other
\* node, every payload and the node count as they were, so that s becomes no
\* neighbor of t.
C17_AddEdgeIsDirectedAndKeepsDuplicates ==
    [][AddEdgeSucceeds =>
        LET s == call'.source
            t == call'.target IN
        /\ get_neighbors(GNext, s).status = "ok"
        /\ Len(get_neighbors(GNext, s).value) = Len(get_neighbors(G, s).value) + 1
        /\ \A u \in Handles \ {s} : get_neighbors(GNext, u) = get_neighbors(G, u)
        /\ Len(nodes') = Len(nodes)
        /\ \A h \in Handles : get_data(GNext, h) = get_data(G, h)
        /\ (t /= s /\ Valid(t)) =>
              (s \in Range(get_neighbors(GNext, t).value) <=> Neighbor(t, s))]_vars

\* add_edge(s, s) has succeeded for the second time: s is twice its own neighbor.
C17_Witness ==
    /\ pc = "returned" /\ call.op = "add_edge" /\ ret.status = "ok"
    /\ call.source = call.target
    /\ get_neighbors(G, call.source) = Returned(<<call.source, call.source>>)

\* ------------------------------------------------------------------------
\* Handles and accessors, on both graphs
\* ------------------------------------------------------------------------
\* A step in which a call of the operation `op` returns or panics.
Calls(op) == pc = "idle" /\ pc' = "returned" /\ call'.op = op

\* C12: add_node succeeds and returns the number of nodes before the call, on
\* the VecGraph and on the RcGraph; so the handles returned are 0, 1, 2, ...,
\* the node count never shrinks and grows only by add_node, and every handle
\* returned keeps designating the node it was returned for (the same index
\* field, the same payload as long as nobody writes it).
C12_AddNodeReturnsPreviousCount ==
    [][/\ Calls("add_node") =>
            /\ ret' = Returned(Len(nodes)) /\ rc_ret' = Returned(Len(rc_nodes))
            /\ Len(nodes') = Len(nodes) + 1 /\ Len(rc_nodes') = Len(rc_nodes) + 1
            /\ get_data(GNext, ret'.value) = Some(call'.data)
            /\ rc_get_data(RcGraph(rc_nodes', rc_heap'), rc_ret'.value) = Some(call'.data)
       /\ ~Calls("add_node") => Len(nodes') = Len(nodes) /\ Len(rc_nodes') = Len(rc_nodes)
       /\ \A h \in 0..(Len(nodes) - 1) :
            /\ nodes'[h + 1].index = h /\ nodes[h + 1].index = h
            /\ nodes'[h + 1].data = nodes[h + 1].data
       /\ \A h \in 0..(Len(rc_nodes) - 1) :
            /\ rc_nodes'[h + 1].index = h /\ rc_nodes[h + 1].index = h
            /\ rc_nodes'[h + 1].data = rc_nodes[h + 1].data]_vars

\* The third add_node call has returned handle 2 on both graphs, after an
\* add_edge call stored an edge.
C12_Witness ==
    /\ pc = "returned" /\ call.op = "add_node"
    /\ ret = Returned(2) /\ rc_ret = Returned(2)
    /\ Len(edges) >= 1 /\ Len(rc_heap) >= 1

\* The RcGraph after the step.
RGNext == RcGraph(rc_nodes', rc_heap')

\* C13: get_data and get_data_mut return without a panic on both graphs; they
\* yield None exactly for the handles at or beyond the node count, and otherwise
\* the payload stored for the node, which is the value a write through
\* get_data_mut put there and is changed by no other step (add_node gives
\* its argument to the new node, see C12).
C13_GetDataNeverPanics ==
    [][/\ (Calls("get_data") \/ Calls("get_data_mut")) =>
            /\ ret'.status = "ok" /\ rc_ret'.status = "ok"
            /\ (ret'.value = None) <=> (call'.node >= Len(nodes))
            /\ (rc_ret'.value = None) <=> (call'.node >= Len(rc_nodes))
            /\ call'.node < Len(nodes) => ret'.value = Some(nodes[call'.node + 1].data)
            /\ call'.node < Len(rc_nodes) => rc_ret'.value = Some(rc_nodes[call'.node + 1].data)
       /\ \A h \in Handles :
            LET written == Calls("get_data_mut") /\ call'.node = h /\ call'.write /= None IN
            /\ h < Len(nodes) =>
                 get_data(GNext, h) = IF written THEN call'.write ELSE get_data(G, h)
            /\ h < Len(rc_nodes) =>
                 rc_get_data(RGNext, h) = IF written THEN call'.write ELSE rc_get_data(RG, h)
            /\ h >= Len(nodes') => get_data(GNext, h) = None /\ get_data_mut(GNext, h) = None
            /\ h >= Len(rc_nodes') =>
                 rc_get_data(RGNext, h) = None /\ rc_get_data_mut(RGNext, h) = None]_vars

\* get_data_mut has returned the payload of a node on both graphs and the
\* caller has written another value through the reference.
C13_Witness ==
    /\ pc = "returned" /\ call.op = "get_data_mut"
    /\ call.write /= None /\ ret.value /= None /\ ret.value /= call.write
    /\ rc_ret = ret
    /\ get_data(G, call.node) = call.write /\ rc_get_data(RG, call.node) = call.write
    /\ Len(edges) >= 1

\* The handles of the nodes whose payload satisfies p.
Matching(ns, p) == {h \in 0..(Len(ns) - 1) : Test(p, ns[h + 1].data)}
Increasing(seq) == \A i \in 1..Len(seq), j \in 1..Len(seq) : i < j => seq[i] < seq[j]

\* C14: find_nodes(p) returns the handles of exactly the nodes whose payload
\* satisfies p, in increasing order; find(p) returns the least of them, or
\* None when there is none (find on both graphs, find_nodes on the VecGraph).
C14_FindScansInInsertionOrder ==
    /\ (pc = "returned" /\ call.op = "find_nodes") =>
           /\ ret.status = "ok"
           /\ Increasing(ret.value)
           /\ Range(ret.value) = Matching(nodes, call.predicate)
    /\ (pc = "returned" /\ call.op = "find") =>
           /\ ret = Returned(IF Matching(nodes, call.predicate) = {} THEN None
                             ELSE Some(Minimum(Matching(nodes, call.predicate))))
           /\ rc_ret = Returned(IF Matching(rc_nodes, call.predicate) = {} THEN None
                                ELSE Some(Minimum(Matching(rc_nodes, call.predicate))))

\* find has returned the second node on both graphs: the first node does not
\* match and the third one matches too.
C14_Witness ==
    /\ pc = "returned" /\ call.op = "find"
    /\ ret = Returned(Some(1)) /\ rc_ret = Returned(Some(1))
    /\ Matching(nodes, call.predicate) = {1, 2}
    /\ find_nodes(G, call.predicate) = <<1, 2>>

\* ------------------------------------------------------------------------
\* add_edge on both graphs
\* ------------------------------------------------------------------------
\* C15: an add_edge call that panics changes nothing: on the VecGraph the node
\* arena, the edge arena and every neighbor list are as before the call, and on
\* the RcGraph the nodes, the neighbor cells and every neighbor list are.
C15_FailedAddEdgeHasNoEffect ==
    [][/\ (Calls("add_edge") /\ ret'.status = "panic") =>
            /\ nodes' = nodes /\ edges' = edges
            /\ \A u \in Handles : get_neighbors(GNext, u) = get_neighbors(G, u)
       /\ (Calls("add_edge") /\ rc_ret'.status = "panic") =>
            /\ rc_nodes' = rc_nodes /\ rc_heap' = rc_heap
            /\ \A u \in Handles : rc_get_neighbors(RGNext, u) = rc_get_neighbors(RG, u)]_vars

\* add_edge has panicked on both graphs, which hold nodes and an edge, on a
\* source that is no node while the target is one.
C15_Witness ==
    /\ pc = "returned" /\ call.op = "add_edge"
    /\ ret.status = "panic" /\ rc_ret.status = "panic"
    /\ ~Valid(call.source) /\ Valid(call.target)
    /\ Len(edges) >= 1 /\ Len(rc_heap) >= 1

\* C16: RcGraph::add_edge panics when its source or its target is at or beyond
\* the node count; otherwise it appends the target at the end of the source's
\* neighbor list and leaves the other lists alone, and no other step changes
\* a list: get_neighbors lists the targets in insertion order.
C16_RcAddEdgeAppendsOrPanics ==
    [][/\ Calls("add_edge") =>
            (rc_ret'.status = "panic" <=>
                (call'.source >= Len(rc_nodes) \/ call'.target >= Len(rc_nodes)))
       /\ Calls("add_edge") => rc_ret'.status \in {"ok", "panic"}
       /\ \A u \in 0..(Len(rc_nodes) - 1) :
            rc_get_neighbors(RGNext, u) =
                IF Calls("add_edge") /\ rc_ret'.status = "ok" /\ call'.source = u
                THEN Returned(Append(rc_get_neighbors(RG, u).value, call'.target))
                ELSE rc_get_neighbors(RG, u)
       /\ Len(rc_nodes') > Len(rc_nodes) =>
            rc_get_neighbors(RGNext, Len(rc_nodes)) = Returned(<<>>)]_vars

\* add_edge has returned on the RcGraph for a source that now has two
\* different neighbors, the target of this call last.
C16_Witness ==
    /\ pc = "returned" /\ call.op = "add_edge" /\ rc_ret.status = "ok"
    /\ Len(rc_get_neighbors(RG, call.source).value) = 2
    /\ rc_get_neighbors(RG, call.source).value[2] = call.target
    /\ rc_get_neighbors(RG, call.source).value[1] /= call.target

\* The payloads held by the neighbor cells, by address.
CellData(heap) == [a \in 1..Len(heap) |-> heap[a].data]

\* C18: the cell add_edge(s, t) puts in the neighbor list of s holds the
\* payload t has at that moment and is a copy of its own: a write through
\* get_data_mut(t) changes what get_data(t) returns and no cell, a write to a
\* cell changes the payload of no node, and no other step changes the
\* payload of a cell.
C18_NeighborCellIsDivergentSnapshot ==
    [][/\ (Calls("add_edge") /\ rc_ret'.status = "ok") =>
            /\ Len(rc_heap') = Len(rc_heap) + 1
            /\ rc_heap'[Len(rc_heap')].data = rc_nodes[call'.target + 1].data
            /\ rc_nodes'[call'.source + 1].neighbors[Len(rc_nodes'[call'.source + 1].neighbors)]
                   = Len(rc_heap')
            /\ SubSeq(CellData(rc_heap'), 1, Len(rc_heap)) = CellData(rc_heap)
       /\ (Calls("get_data_mut") /\ call'.write /= None /\ call'.node < Len(rc_nodes)) =>
            /\ rc_get_data(RGNext, call'.node) = call'.write
            /\ CellData(rc_heap') = CellData(rc_heap)
       /\ Calls("neighbor_write") =>
            /\ \A h \in Handles : rc_get_data(RGNext, h) = rc_get_data(RG, h)
            /\ rc_heap'[rc_nodes[call'.source + 1].neighbors[call'.position + 1]].data = call'.value
       /\ ~(Calls("add_edge") \/ Calls("neighbor_write")) => CellData(rc_heap') = CellData(rc_heap)]_vars

\* get_data_mut(t) has written a new payload to a node t of which a neighbor
\* cell exists: the cell still holds the payload t had before.
C18_Witness ==
    /\ pc = "returned" /\ call.op = "get_data_mut" /\ call.write /= None
    /\ rc_ret.value /= None /\ rc_ret.value /= call.write
    /\ rc_get_data(RG, call.node) = call.write
    /\ \E s \in 0..(Len(rc_nodes) - 1) : \E i \in 1..Len(rc_nodes[s + 1].neighbors) :
          LET cell == rc_heap[rc_nodes[s + 1].neighbors[i]] IN
          cell.index = call.node /\ Some(cell.data) = rc_ret.value

\* ------------------------------------------------------------------------
\* The two dijkstra implementations
\* ------------------------------------------------------------------------
\* The cumulative cost of a path of the RcGraph: the costs of the nodes entered.
RECURSIVE RcPathCost(_)
RcPathCost(p) ==
    IF Len(p) <= 1 THEN 0
    ELSE cost_fn(rc_nodes[p[Len(p)] + 1].data) + RcPathCost(SubSeq(p, 1, Len(p) - 1))

Rectangular(data) == \A r \in 1..Len(data) : Len(data[r]) = Len(data[1])
Width(data) == IF data = <<>> THEN 0 ELSE Len(data[1])
\* The cells (1-based row and column) next to (r, c) in a height x width array:
\* above, right, below, left, as far as they lie inside it.
LatticeNeighbors(r, c, height, width) ==
    {<<r - 1, c>>, <<r, c + 1>>, <<r + 1, c>>, <<r, c - 1>>} \cap ((1..height) \X (1..width))

\* C20: new_from_data on a rectangular R x C array returns a grid with one
\* node per cell, holding the cell's payload, and get_neighbors of the node of
\* cell (r, c) yields, each once, the nodes of the cells above, right of,
\* below and left of (r, c) that lie inside the array, and nothing else.
C20_GridNeighborsAreLatticeNeighbors ==
    /\ (pc = "returned" /\ call.op = "new_from_data" /\ Rectangular(call.data)) =>
           /\ ret.status = "ok"
           /\ node_indices /= None
           /\ Len(node_indices[1]) = Len(call.data)
           /\ \A r \in 1..Len(call.data) :
                 /\ Len(node_indices[1][r]) = Len(call.data[r])
                 /\ \A c \in 1..Len(call.data[r]) :
                       get_data(G, node_indices[1][r][c]) = Some(call.data[r][c])
    /\ node_indices /= None =>
           LET cell == node_indices[1]
               height == Len(cell)
               width == Width(cell) IN
           /\ Rectangular(cell)
           /\ Len(nodes) = height * width
           /\ \A r1 \in 1..height, c1 \in 1..width, r2 \in 1..height, c2 \in 1..width :
                 cell[r1][c1] = cell[r2][c2] => (r1 = r2 /\ c1 = c2)
           /\ \A r \in 1..height, c \in 1..width :
                 LET found == get_neighbors(G, cell[r][c])
                     expected == {cell[n[1]][n[2]] : n \in LatticeNeighbors(r, c, height, width)} IN
                 /\ Valid(cell[r][c])
                 /\ found.status = "ok"
                 /\ Range(found.value) = expected
                 /\ Len(found.value) = Cardinality(expected)

\* new_from_data has built the grid of a 3 x 3 array: the node of the middle
\* cell has four neighbors, the node of a corner two, the node of an edge three.
C20_Witness ==
    /\ pc = "returned" /\ call.op = "new_from_data" /\ ret.status = "ok"
    /\ Len(call.data) = 3 /\ Rectangular(call.data) /\ Width(call.data) = 3
    /\ Len(nodes) = 9 /\ Len(edges) = 24
    /\ Range(get_neighbors(G, node_indices[1][2][2]).value) = {1, 3, 5, 7}
    /\ Len(get_neighbors(G, node_indices[1][1][1]).value) = 2
    /\ Len(get_neighbors(G, node_indices[1][1][2]).value) = 3

\* C21: in a grid built from an R x C array with R, C >= 1 the node of cell
\* (r, c) has handle r * C + c and the payload data[r][c]; first_index returns
\* handle 0 and last_index handle R * C - 1; on the grid of new(), which has
\* no node_indices, both return None.
C21_GridHandlesAreRowMajor ==
    /\ (pc = "returned" /\ call.op = "new_from_data" /\ Rectangular(call.data)
            /\ Len(call.data) >= 1 /\ Width(call.data) >= 1) =>
           /\ ret.status = "ok" /\ node_indices /= None
           /\ \A r \in 0..(Len(call.data) - 1), c \in 0..(Width(call.data) - 1) :
                 /\ node_indices[1][r + 1][c + 1] = r * Width(call.data) + c
                 /\ get_data(G, r * Width(call.data) + c) = Some(call.data[r + 1][c + 1])
    /\ (node_indices /= None /\ Len(node_indices[1]) >= 1 /\ Width(node_indices[1]) >= 1) =>
           LET height == Len(node_indices[1])
               width == Width(node_indices[1]) IN
           /\ \A r \in 0..(height - 1), c \in 0..(width - 1) :
                 node_indices[1][r + 1][c + 1] = r * width + c
           /\ (pc = "returned" /\ call.op = "first_index") => ret = Returned(Some(0))
           /\ (pc = "returned" /\ call.op = "last_index") =>
                 ret = Returned(Some(height * width - 1))
    /\ (node_indices = None /\ pc = "returned" /\ call.op \in {"first_index", "last_index"}) =>
           ret = Returned(None)

\* last_index has returned handle 5 on the grid of a 2 x 3 array.
C21_Witness ==
    /\ pc = "returned" /\ call.op = "last_index"
    /\ node_indices /= None
    /\ Len(node_indices[1]) = 2 /\ Width(node_indices[1]) = 3
    /\ ret = Returned(Some(5))
    /\ first_index(node_indices) = Some(0)

\* C22: neither search changes the graph. Every step of dijkstra and of
\* dijkstra_search_with_closure, from the call to the return and whatever the
\* outcome, leaves the node count, every payload and every neighbor list as
\* they were; so the search repeated on the graph it returns from has the
\* same results, the returned one among them.
InSearch(p) == p \in {"dijkstra", "closure"}

C22_SearchLeavesGraphUnchanged ==
    [][(InSearch(pc) \/ InSearch(pc')) =>
          /\ Len(nodes') = Len(nodes)
          /\ \A h \in Handles :
                /\ get_data(GNext, h) = get_data(G, h)
                /\ get_neighbors(GNext, h) = get_neighbors(G, h)
          /\ GNext = G
          /\ (pc = "dijkstra" /\ pc' = "returned") =>
                /\ DijkstraResults(GNext, call.start, call.target)
                       = DijkstraResults(G, call.start, call.target)
                /\ ret' \in DijkstraResults(GNext, call.start, call.target)
          /\ (pc = "closure" /\ pc' = "returned") =>
                /\ ClosureResults(GNext, call.frontier_fn, call.target_fn)
                       = ClosureResults(G, call.frontier_fn, call.target_fn)
                /\ ret' \in ClosureResults(GNext, call.frontier_fn, call.target_fn)]_vars

\* A dijkstra call that went through the loop and returned a path of three
\* nodes, on a graph whose start node has a payload the search could have
\* overwritten.
C22_Witness ==
    /\ pc = "returned" /\ call.op = "dijkstra"
    /\ ret.status = "ok" /\ Len(ret.value) = 3
    /\ get_data(G, call.start) = Some(MaxData)
    /\ Len(edges) = MaxEdges

\* C23: during a search the predecessor and best-cost entries of a discovered
\* node are rewritten only by a relaxation that found a strictly smaller
\* cumulative cost, and a node enters both maps together when it is first
\* discovered, with a node that has an edge to it as predecessor; an edge
\* examined later that reaches the node at an equal cost leaves its
\* predecessor the first one found.
C23_EntriesChangeOnlyOnStrictImprovement ==
    [][(InSearch(pc) /\ pc' = pc) =>
          /\ DOMAIN came_from = DOMAIN cost_so_far
          /\ DOMAIN came_from' = DOMAIN cost_so_far'
          /\ DOMAIN cost_so_far \subseteq DOMAIN cost_so_far'
          /\ \A n \in DOMAIN cost_so_far :
                (came_from'[n] /= came_from[n] \/ cost_so_far'[n] /= cost_so_far[n])
                    => cost_so_far'[n] < cost_so_far[n]
          /\ \A n \in DOMAIN cost_so_far' :
                (n \notin DOMAIN cost_so_far \/ came_from'[n] /= came_from[n])
                    => Neighbor(came_from'[n], n)]_vars

\* A search that has expanded a node with a zero-cost edge to itself: the
\* self-loop reached the node again at the cost it already had, and its
\* predecessor is still the node that discovered it.
C23_Witness ==
    /\ InSearch(pc)
    /\ \E n \in DOMAIN came_from :
          /\ came_from[n] /= n
          /\ n \notin DOMAIN frontier
          /\ Neighbor(n, n)
          /\ get_data(G, n) = Some(0)

\* The ends a whole run of dijkstra can have: its result together with the
\* predecessors and best costs it had when it left the loop.
RECURSIVE DijkstraEndsFrom(_, _, _, _)
DijkstraEndsFrom(g, st, start, target) ==
    UNION {IF r.done
           THEN {[ret |-> r.ret, came_from |-> r.st.came_from, cost_so_far |-> r.st.cost_so_far]}
           ELSE DijkstraEndsFrom(g, r.st, start, target)
           : r \in DijkstraPass(g, st, start, target)}

DijkstraEnds(g, start, target) == DijkstraEndsFrom(g, DijkstraInit(start), start, target)

\* The graph g with the payload of node h replaced.
WithData(g, h, data) == Graph([g.nodes EXCEPT ![h + 1].data = data], g.edges)

\* C24: the start node contributes no cost. When dijkstra has returned from
\* a valid start node, the same call on a graph that differs only in the
\* payload of the start node ends in the same ways: the same results, the
\* one returned among them, with the same predecessors and the same best
\* costs, whether or not edges lead back into the start node.
C24_StartPayloadIsIrrelevant ==
    (pc = "returned" /\ call.op = "dijkstra" /\ Valid(call.start)) =>
        \A data \in Data :
            LET other == WithData(G, call.start, data) IN
            /\ DijkstraEnds(other, call.start, call.target) = DijkstraEnds(G, call.start, call.target)
            /\ ret \in DijkstraResults(other, call.start, call.target)

\* dijkstra returned from a start node of the largest payload whose neighbor
\* has an edge back into it: the target was not reached, so the search
\* popped the neighbor and relaxed the start node before it returned.
C24_Witness ==
    /\ pc = "returned" /\ call.op = "dijkstra" /\ Valid(call.start)
    /\ get_data(G, call.start) = Some(MaxData)
    /\ \E n \in ValidHandles :
          /\ n /= call.start /\ n /= call.target
          /\ Neighbor(call.start, n) /\ Neighbor(n, call.start)
    /\ ret = Returned(<<>>)
    /\ \E e \in DijkstraEnds(G, call.start, call.target) : Cardinality(DOMAIN e.cost_so_far) = 2

\* C25: in every Grid each node is connected to two, three or four other
\* nodes: whatever new_from_data, add_node and add_edge have built, no node
\* of the grid has fewer than two or more than four neighbors.
C25_EveryGridNodeHasTwoToFourNeighbors ==
    \A h \in GridHandles :
        Valid(h) =>
            /\ get_neighbors(G, h).status = "ok"
            /\ Len(get_neighbors(G, h).value) \in 2..4

\* C26: from_offset undoes get_offset. For every CardinalDirection and every
\* RelativeDirection d, from_offset(get_offset(d)) = d, with Up/North at
\* (-1, 0), Right/East at (0, 1), Down/South at (1, 0) and Left/West at
\* (0, -1); on every other offset, (0, 0) and offsets with a component
\* outside -1..1 included, from_offset panics.
DirectionOffsets == {<<-1, 0>>, <<0, 1>>, <<1, 0>>, <<0, -1>>}

C26_FromOffsetInvertsGetOffset ==
    /\ \A d \in CardinalDirections :
          /\ cardinal_from_offset(cardinal_get_offset(d)) = Returned(d)
          /\ get_offset(to_relative(d)) = cardinal_get_offset(d)
    /\ \A d \in RelativeDirections : from_offset(get_offset(d)) = Returned(d)
    /\ cardinal_get_offset("North") = <<-1, 0>> /\ get_offset("Up") = <<-1, 0>>
    /\ cardinal_get_offset("East") = <<0, 1>> /\ get_offset("Right") = <<0, 1>>
    /\ cardinal_get_offset("South") = <<1, 0>> /\ get_offset("Down") = <<1, 0>>
    /\ cardinal_get_offset("West") = <<0, -1>> /\ get_offset("Left") = <<0, -1>>
    /\ (pc = "returned" /\ call.op = "CardinalDirection::get_offset") =>
          cardinal_from_offset(ret.value) = Returned(call.direction)
    /\ (pc = "returned" /\ call.op = "RelativeDirection::get_offset") =>
          from_offset(ret.value) = Returned(call.direction)
    /\ (pc = "returned" /\ call.op = "CardinalDirection::from_offset") =>
          IF call.offset \in DirectionOffsets
          THEN /\ ret.status = "ok"
               /\ ret.value \in CardinalDirections
               /\ cardinal_get_offset(ret.value) = call.offset
          ELSE ret.status = "panic"
    /\ (pc = "returned" /\ call.op = "RelativeDirection::from_offset") =>
          IF call.offset \in DirectionOffsets
          THEN /\ ret.status = "ok"
               /\ ret.value \in RelativeDirections
               /\ get_offset(ret.value) = call.offset
          ELSE ret.status = "panic"

\* RelativeDirection::from_offset has returned Left for the offset (0, -1).
C26_Witness ==
    /\ pc = "returned" /\ call.op = "RelativeDirection::from_offset"
    /\ call.offset = <<0, -1>>
    /\ ret = Returned("Left")
    /\ from_offset(get_offset("Left")) = Returned("Left")

\* The nodes a search has popped: discovered and no longer in the frontier.
Popped(st) == (DOMAIN st.cost_so_far) \ (DOMAIN st.frontier)

\* The number of predecessor steps from node n to a node that is its own
\* predecessor, or -1 when there is none within `fuel` steps.
RECURSIVE StepsToSeed(_, _, _)
StepsToSeed(cf, n, fuel) ==
    IF ~ContainsKey(cf, n) THEN -1
    ELSE IF cf[n] = n THEN 0
    ELSE IF fuel = 0 THEN -1
    ELSE LET rest == StepsToSeed(cf, cf[n], fuel - 1) IN
         IF rest = -1 THEN -1 ELSE rest + 1

\* The nodes a search seeds with themselves as predecessor.
Seeds ==
    IF call.op = "dijkstra" THEN {call.start}
    ELSE IF call.op = "dijkstra_search_with_closure" THEN Range(find_nodes(G, call.frontier_fn))
    ELSE {}

\* C27: both searches terminate, on graphs with cycles, self-loops, duplicate
\* edges and zero-cost nodes alike. Every pass of the loop that does not end
\* the call pops one node for good: a popped node never enters the frontier
\* again, so the loop makes at most one pass per discovered handle. The
\* predecessor map has no cycle but the self-predecessor of the seeds: from
\* every discovered node the predecessors lead to a seed in at most
\* node-count steps, so the backward walk of the path reconstruction ends,
\* and no call is left walking for ever.
C27_SearchesTerminate ==
    [][/\ (InSearch(pc) /\ pc' = pc) =>
             /\ Popped(St) \subseteq Popped(St')
             /\ Cardinality(Popped(St')) = Cardinality(Popped(St)) + 1
             /\ Cardinality(Popped(St')) <= Len(nodes) + 1
       /\ InSearch(pc') =>
             \A n \in DOMAIN came_from' :
                 /\ StepsToSeed(came_from', n, Len(nodes)) \in 0..Len(nodes)
                 /\ (came_from'[n] = n) => n \in Seeds'
       /\ (InSearch(pc) /\ pc' = "returned") =>
             /\ ret'.status \in {"ok", "panic"}
             /\ ret'.status = "ok" => Len(ret'.value) <= Len(nodes) + 1]_vars

\* A search on a graph with a zero-cost cycle through the start node has
\* popped both nodes of the cycle and goes on with an empty frontier.
C27_Witness ==
    /\ pc = "dijkstra"
    /\ DOMAIN frontier = {}
    /\ Cardinality(Popped(St)) = 2
    /\ \E n \in ValidHandles :
          /\ n /= call.start
          /\ Neighbor(call.start, n) /\ Neighbor(n, call.start)
          /\ get_data(G, n) = Some(0) /\ get_data(G, call.start) = Some(0)
          /\ ContainsKey(came_from, n) /\ came_from[n] = call.start

\* C28: on a VecGraph built by add_node and add_edge calls that all
\* completed without failure, dijkstra from a valid start handle never
\* panics: no neighbor lookup fails, no handle it yields lacks a payload and
\* no key looked up in the maps is missing, so the call returns a sequence.
C28_DijkstraNeverPanicsAfterCompletedCalls ==
    (pc = "returned" /\ call.op = "dijkstra" /\ Valid(call.start)) => ret.status = "ok"

\* The target the loop of dijkstra_search_with_closure hands to the path
\* reconstruction: the last node of a non-empty result.
Last(path) == path[Len(path)]

\* C29: throughout dijkstra_search_with_closure every node selected by
\* frontier_fn keeps best cost 0 and itself as predecessor. Hence every
\* non-empty result begins with a node satisfying frontier_fn, ends with a
\* node satisfying target_fn, holds no frontier node after the first, and
\* each consecutive pair is an edge of the graph; reconstruct_path_multiple_start
\* of rc_graph.rs yields the same sequence from the same maps.
C29_SeedsAreKeptAndResultsRunFromFrontierToTarget ==
    [][/\ pc' = "closure" =>
             \A n \in Range(find_nodes(GNext, call'.frontier_fn)) :
                 /\ ContainsKey(cost_so_far', n) /\ cost_so_far'[n] = 0
                 /\ ContainsKey(came_from', n) /\ came_from'[n] = n
       /\ (pc = "closure" /\ pc' = "returned" /\ ret'.status = "ok" /\ ret'.value /= <<>>) =>
             LET path == ret'.value
                 frontier_indices == find_nodes(G, call.frontier_fn) IN
             /\ Valid(path[1]) /\ Test(call.frontier_fn, nodes[path[1] + 1].data)
             /\ Valid(Last(path)) /\ Test(call.target_fn, nodes[Last(path) + 1].data)
             /\ \A i \in 2..Len(path) :
                   /\ Valid(path[i])
                   /\ ~Test(call.frontier_fn, nodes[path[i] + 1].data)
                   /\ Neighbor(path[i - 1], path[i])
             /\ reconstruct_path_multiple_start(came_from, frontier_indices, Some(Last(path)))
                    = ret']_vars

\* The search returned the path from the second of two frontier nodes to the
\* target, although the first frontier node has an edge to the second.
C29_Witness ==
    /\ pc = "returned" /\ call.op = "dijkstra_search_with_closure"
    /\ ret.status = "ok" /\ Len(ret.value) = 2
    /\ Len(find_nodes(G, call.frontier_fn)) = 2
    /\ \E n \in Range(find_nodes(G, call.frontier_fn)) :
          n /= ret.value[1] /\ Neighbor(n, ret.value[1])

\* The edge indices met when following the list from `edge_index`, as far
\* as it can be followed in `fuel` steps, and whether the list ended in None.
RECURSIVE EdgeChain(_, _)
EdgeChain(edge_index, fuel) ==
    IF edge_index = None THEN [indices |-> <<>>, ended |-> TRUE]
    ELSE IF fuel = 0 \/ Get(edges, edge_index[1]) = None
    THEN [indices |-> <<edge_index[1]>>, ended |-> FALSE]
    ELSE LET rest == EdgeChain(edges[edge_index[1] + 1].next_outgoing_edge, fuel - 1) IN
         [indices |-> <<edge_index[1]>> \o rest.indices, ended |-> rest.ended]

\* The outgoing-edge list of node h.
EdgeList(h) == EdgeChain(nodes[h + 1].first_outgoing_edge, Len(edges))

\* C30: the outgoing-edge lists are well formed in every reachable state.
\* Following first_outgoing_edge and then next_outgoing_edge from any node
\* ends in None, meets only indices of the edge arena and meets none twice;
\* every edge of the arena is in the list of exactly one node; and the next
\* pointer of every edge refers to an edge of smaller index.
C30_EdgeListsAreWellFormed ==
    /\ \A h \in 0..(Len(nodes) - 1) :
          LET list == EdgeList(h) IN
          /\ list.ended
          /\ \A i \in 1..Len(list.indices) :
                /\ list.indices[i] \in 0..(Len(edges) - 1)
                /\ \A j \in 1..Len(list.indices) :
                      list.indices[i] = list.indices[j] => i = j
    /\ \A e \in 0..(Len(edges) - 1) :
          /\ Cardinality({h \in 0..(Len(nodes) - 1) : e \in Range(EdgeList(h).indices)}) = 1
          /\ edges[e + 1].next_outgoing_edge /= None =>
                /\ edges[e + 1].next_outgoing_edge[1] >= 0
                /\ edges[e + 1].next_outgoing_edge[1] < e

\* new_from_data has built the grid of a 3 x 3 array: the list of the middle
\* node holds four of the 24 edges, the newest first.
C30_Witness ==
    /\ pc = "returned" /\ call.op = "new_from_data"
    /\ Len(edges) = 24
    /\ \E h \in 0..(Len(nodes) - 1) :
          /\ Len(EdgeList(h).indices) = 4
          /\ \A i \in 1..3 : EdgeList(h).indices[i] > EdgeList(h).indices[i + 1]

\* The calls new_from_data makes on its graph do what the add_node and
\* add_edge steps of the graph do.
VecCallsAgreeWithSteps ==
    [][/\ Calls("add_node") =>
            /\ GNext = VecAddNode(G, call'.data).g
            /\ ret' = VecAddNode(G, call'.data).ret
       /\ Calls("add_edge") =>
            /\ GNext = VecAddEdge(G, call'.source, call'.target).g
            /\ ret' = VecAddEdge(G, call'.source, call'.target).ret]_vars

\* The caller takes the outcome of the call and goes on: the returned value is
\* dropped before the next call.
drop_result ==
    /\ pc = "returned"
    /\ pc' = "idle"
    /\ call' = NoCall
    /\ ret' = NoResult
    /\ UNCHANGED <<nodes, edges, search>>

Next ==
    \/ \E data \in Data : add_node(data) /\ UNCHANGED beside_vec
    \/ \E source \in Handles, target \in Handles : add_edge(source, target) /\ UNCHANGED beside_vec
    \/ \E start \in Handles, target \in Handles : dijkstra(start, target) /\ UNCHANGED beside_vec
    \/ dijkstra_loop /\ UNCHANGED beside_vec
    \/ \E frontier_fn \in Predicates, target_fn \in Predicates :
          dijkstra_search_with_closure(frontier_fn, target_fn) /\ UNCHANGED beside_vec
    \/ closure_loop /\ UNCHANGED beside_vec
    \/ drop_result /\ UNCHANGED beside_vec

Spec == Init /\ [][Next]_vars

\* ------------------------------------------------------------------------
\* A VecGraph and an RcGraph driven by the same calls
\* ------------------------------------------------------------------------
\* The same dijkstra call on both graphs, each run to its end.
dijkstra_on_both(start, target) ==
    /\ pc = "idle"
    /\ pc' = "returned"
    /\ call' = [op |-> "dijkstra", start |-> start, target |-> target]
    /\ ret' \in DijkstraResults(G, start, target)
    /\ rc_ret' \in rc_dijkstra(RG, start, target)
    /\ UNCHANGED <<nodes, edges, search, rc_nodes, rc_heap>>

NextBoth ==
    \/ \E data \in Data :
          add_node(data) /\ rc_add_node(data) /\ UNCHANGED <<built_validly, node_indices>>
    \/ \E source \in Handles, target \in Handles :
          /\ add_edge(source, target)
          /\ rc_add_edge(source, target)
          /\ built_validly' = (built_validly /\ Valid(source) /\ Valid(target))
          /\ UNCHANGED node_indices
    \/ \E node \in Handles :
          call_get_data(node) /\ rc_call_get_data(node) /\ UNCHANGED <<built_validly, node_indices>>
    \/ \E node \in Handles :
          /\ call_get_neighbors(node)
          /\ rc_call_get_neighbors(node)
          /\ UNCHANGED <<built_validly, node_indices>>
    \/ \E predicate \in Predicates :
          call_find(predicate) /\ rc_call_find(predicate) /\ UNCHANGED <<built_validly, node_indices>>
    \/ \E predicate \in Predicates :
          \* rc_graph.rs defines no find_nodes
          call_find_nodes(predicate) /\ rc_ret' = NoResult
              /\ UNCHANGED <<rc_nodes, rc_heap, built_validly, node_indices>>
    \/ \E start \in Handles, target \in Handles :
          dijkstra_on_both(start, target) /\ UNCHANGED <<built_validly, node_indices>>
    \/ drop_result /\ rc_ret' = NoResult
          /\ UNCHANGED <<rc_nodes, rc_heap, built_validly, node_indices>>

SpecBoth == Init /\ [][NextBoth]_vars

\* ------------------------------------------------------------------------
\* The two graphs with their payloads written after construction
\* ------------------------------------------------------------------------
NextMut ==
    \/ \E data \in Data :
          add_node(data) /\ rc_add_node(data) /\ UNCHANGED <<built_validly, node_indices>>
    \/ \E source \in Handles, target \in Handles :
          /\ add_edge(source, target)
          /\ rc_add_edge(source, target)
          /\ UNCHANGED <<built_validly, node_indices>>
    \/ \E node \in Handles :
          call_get_data(node) /\ rc_call_get_data(node) /\ UNCHANGED <<built_validly, node_indices>>
    \/ \E node \in Handles, write \in Writes :
          /\ call_get_data_mut(node, write)
          /\ rc_call_get_data_mut(node, write)
          /\ UNCHANGED <<built_validly, node_indices>>
    \/ \E source \in Handles, position \in 0..(MaxEdges - 1), value \in Data :
          neighbor_write(source, position, value) /\ UNCHANGED <<built_validly, node_indices>>
    \/ drop_result /\ rc_ret' = NoResult
          /\ UNCHANGED <<rc_nodes, rc_heap, built_validly, node_indices>>

SpecMut == Init /\ [][NextMut]_vars

\* ------------------------------------------------------------------------
\* A Grid built from an array
\* ------------------------------------------------------------------------
NextGrid ==
    \/ \E data \in GridInputs : new_from_data(data)
    \/ \E node \in GridHandles : call_get_neighbors(node) /\ UNCHANGED beside_vec
    \/ call_first_index
    \/ call_last_index
    \/ drop_result /\ UNCHANGED beside_vec

SpecGrid == Init /\ [][NextGrid]_vars

\* ------------------------------------------------------------------------
\* A Grid under all of its Graph operations
\* ------------------------------------------------------------------------
NextGridOps ==
    \/ \E data \in GridInputs : new_from_data(data)
    \/ \E data \in GridData : grid_add_node(data)
    \/ \E source \in Handles, target \in Handles : grid_add_edge(source, target)
    \/ \E node \in GridHandles : call_get_neighbors(node) /\ UNCHANGED beside_vec
    \/ drop_result /\ UNCHANGED beside_vec

SpecGridOps == Init /\ [][NextGridOps]_vars

\* ------------------------------------------------------------------------
\* Directions and offsets
\* ------------------------------------------------------------------------
NextDirection ==
    \/ \E direction \in CardinalDirections : call_cardinal_get_offset(direction)
    \/ \E direction \in RelativeDirections : call_get_offset(direction)
    \/ \E offset \in Offsets : call_cardinal_from_offset(offset)
    \/ \E offset \in Offsets : call_from_offset(offset)
    \/ drop_result /\ UNCHANGED beside_vec

SpecDirection == Init /\ [][NextDirection]_vars

\* ------------------------------------------------------------------------
\* A VecGraph built by calls that all completed, and searched by dijkstra
\* ------------------------------------------------------------------------
NextCompleted ==
    \/ \E data \in Data : add_node(data) /\ UNCHANGED beside_vec
    \/ \E source \in Handles, target \in Handles :
          add_edge(source, target) /\ ret'.status = "ok" /\ UNCHANGED beside_vec
    \/ \E start \in Handles, target \in Handles : dijkstra(start, target) /\ UNCHANGED beside_vec
    \/ dijkstra_loop /\ UNCHANGED beside_vec
    \/ drop_result /\ UNCHANGED beside_vec

SpecCompleted == Init /\ [][NextCompleted]_vars
====
